---------------------------- MODULE Spec2Model ----------------------------
(***************************************************************************)
(* Model of IRACify's deterministic pipeline (ai_irac_summarizer_v3.py):   *)
(* normalisation, r.o. header detection and segmentation, scoring and      *)
(* ranking, ECLI extraction, schema validation and the role guardrail.     *)
(*                                                                         *)
(* Texts are modelled character by character.  A text is a sequence of     *)
(* atoms <<c, n>>: the character c repeated n times.  Only the filler      *)
(* letter FillChar is ever repeated (n > 1); it stands for a run of plain  *)
(* letters and occurs in no keyword and no pattern of the program, so that *)
(* block lengths of hundreds of characters stay small values.              *)
(***************************************************************************)
EXTENDS Integers, Sequences, FiniteSets, TLC

(***************************************************************************)
(* Characters and texts                                                    *)
(***************************************************************************)
Str(s) == [i \in 1..Len(s) |-> <<s[i], 1>>]

FillChar == "x"

Fill(n) == << <<FillChar, n>> >>

UPPER == <<"A","B","C","D","E","F","G","H","I","J","K","L","M",
           "N","O","P","Q","R","S","T","U","V","W","X","Y","Z">>
LOWER == <<"a","b","c","d","e","f","g","h","i","j","k","l","m",
           "n","o","p","q","r","s","t","u","v","w","x","y","z">>
DIGITS == <<"0","1","2","3","4","5","6","7","8","9">>

IsUpper(c) == \E i \in 1..26 : UPPER[i] = c
IsLower(c) == \E i \in 1..26 : LOWER[i] = c
IsDigit(c) == \E i \in 1..10 : DIGITS[i] = c
IsAlpha(c) == IsUpper(c) \/ IsLower(c)
\* \w of the re module
IsWord(c) == IsAlpha(c) \/ IsDigit(c) \/ c = "_"
\* \s of the re module and the characters str.strip() removes
\* (NBSP names U+00A0, which Python counts as whitespace)
IsSpace(c) == c \in {" ", "\n", "\t", "\r", "\f", "NBSP"}

\* str.lower() and str.upper() on one character
LowerChar(c) == IF IsUpper(c) THEN LOWER[CHOOSE i \in 1..26 : UPPER[i] = c] ELSE c
UpperChar(c) == IF IsLower(c) THEN UPPER[CHOOSE i \in 1..26 : LOWER[i] = c] ELSE c

LowerText(t) == [i \in 1..Len(t) |-> <<LowerChar(t[i][1]), t[i][2]>>]
UpperText(t) == [i \in 1..Len(t) |-> <<UpperChar(t[i][1]), t[i][2]>>]

RECURSIVE CharLenOf(_, _, _)
\* the number of characters of atoms a..b of t, summed by halves
CharLenOf(t, a, b) ==
  IF a > b THEN 0
  ELSE IF a = b THEN t[a][2]
  ELSE CharLenOf(t, a, (a + b) \div 2) + CharLenOf(t, (a + b) \div 2 + 1, b)

\* len(s): the number of characters of a text
CharLen(t) == CharLenOf(t, 1, Len(t))

Min(a, b) == IF a <= b THEN a ELSE b

\* F applied to the value of e: e is computed once and F works on the result,
\* as a statement works on the value an earlier assignment stored
Apply(F(_), e) == CHOOSE r \in {F(v) : v \in {e}} : TRUE

\* t[a..b] by atom index, empty when a > b; like a Python slice, it stops at
\* the end of t
Slice(t, a, b) == IF a > Min(b, Len(t)) THEN <<>> ELSE SubSeq(t, a, Min(b, Len(t)))

\* kw occurs in t at atom index i
OccursAt(kw, t, i) ==
  /\ i >= 1
  /\ i + Len(kw) - 1 <= Len(t)
  /\ \A j \in 1..Len(kw) : t[i + j - 1] = kw[j]

\* the `in` operator on strings: kw is a substring of t
Contains(kw, t) == \E i \in 1..Len(t) : OccursAt(kw, t, i)

RECURSIVE LStrip(_)
LStrip(t) == IF t # <<>> /\ IsSpace(t[1][1]) THEN LStrip(Tail(t)) ELSE t

RECURSIVE RStrip(_)
RStrip(t) ==
  IF t # <<>> /\ IsSpace(t[Len(t)][1]) THEN RStrip(SubSeq(t, 1, Len(t) - 1)) ELSE t

\* str.strip()
Strip(t) == RStrip(LStrip(t))


\* chr -> ord, for the characters compared with < (Python compares code points)
CodePoint(c) ==
  IF IsDigit(c) THEN 47 + (CHOOSE i \in 1..10 : DIGITS[i] = c)
  ELSE IF IsUpper(c) THEN 64 + (CHOOSE i \in 1..26 : UPPER[i] = c)
  ELSE IF IsLower(c) THEN 96 + (CHOOSE i \in 1..26 : LOWER[i] = c)
  ELSE CASE c = "\t" -> 9 [] c = "\n" -> 10 [] c = "\f" -> 12 [] c = "\r" -> 13
         [] c = " " -> 32 [] c = "\"" -> 34 [] c = "'" -> 39 [] c = "-" -> 45
         [] c = "." -> 46 [] c = ":" -> 58 [] c = "_" -> 95 [] c = "NBSP" -> 160
         [] c = "EMDASH" -> 8212 [] c = "LSQ" -> 8216 [] c = "RSQ" -> 8217
         [] c = "LDQ" -> 8220 [] c = "RDQ" -> 8221 [] c = "ELLIPSIS" -> 8230

RECURSIVE StrLess(_, _)
\* a < b on strings: lexicographic by code point, a proper prefix is smaller
StrLess(a, b) ==
  IF b = <<>> THEN FALSE
  ELSE IF a = <<>> THEN TRUE
  ELSE IF a[1][1] # b[1][1] THEN CodePoint(a[1][1]) < CodePoint(b[1][1])
  ELSE IF a[1][2] = b[1][2] THEN StrLess(Tail(a), Tail(b))
  ELSE IF a[1][2] < b[1][2]
       THEN StrLess(Tail(a), <<<<b[1][1], b[1][2] - a[1][2]>>>> \o Tail(b))
       ELSE StrLess(<<<<a[1][1], a[1][2] - b[1][2]>>>> \o Tail(a), Tail(b))

\* the last atom of the longest run of characters of class P that starts at
\* atom i (i - 1 when atom i is not of the class): a greedy P*
RunEnd(t, i, P(_)) ==
  IF i < 1 \/ i > Len(t) THEN i - 1
  ELSE (CHOOSE j \in i..(Len(t) + 1) :
          /\ j > Len(t) \/ ~P(t[j][1])
          /\ \A k \in i..(j - 1) : P(t[k][1])) - 1

\* \b holds between atoms i - 1 and i
BoundaryAt(t, i) ==
  LET before == i > 1 /\ i - 1 <= Len(t) /\ IsWord(t[i - 1][1])
      after  == i >= 1 /\ i <= Len(t) /\ IsWord(t[i][1])
  IN  before # after

\* atom i is one single character of class P
OneOf(t, i, P(_)) == i >= 1 /\ i <= Len(t) /\ t[i][2] = 1 /\ P(t[i][1])

\* atom i is the single character c
IsChar(t, i, c) == i >= 1 /\ i <= Len(t) /\ t[i] = <<c, 1>>

RECURSIVE NonOverlapping(_, _, _)
\* finditer: of the matches <<x, start, end>> found at each position, left to
\* right, those that start at or after pos, the end of the match kept before
NonOverlapping(ms, k, pos) ==
  IF k > Len(ms) THEN <<>>
  ELSE IF ms[k][2] < pos THEN NonOverlapping(ms, k + 1, pos)
  ELSE <<ms[k]>> \o NonOverlapping(ms, k + 1, ms[k][3])

(***************************************************************************)
(* Config                                                                  *)
(***************************************************************************)
RO_MAX_CHARS == 1600
TOPK_RO == 12
MIN_PARENT_LEN == 220

(***************************************************************************)
(* normalize_text, clamp                                                   *)
(***************************************************************************)
IsTabOrNbsp(c) == c \in {"\t", "NBSP"}

\* What becomes of atom i of t under one substitution of normalize_text
\* (<<>>: the atom is dropped).  Each pattern matches whole runs, so the
\* part an atom plays in a match shows from the run around it:
\*   crlf   "\r\n" -> "\n": a \r before a \n goes
\*   tabs   [\t NBSP]+ -> " ": the first of a run becomes a space, the rest go
\*   wsnl   \s+\n -> "\n": \s+ takes a whitespace run up to its last line
\*          break, so whitespace with a line break later in its run goes
\*   nlruns \n{3,} -> "\n\n": a line break after two line breaks goes
SubAtom(kind, t, i) ==
  CASE kind = "crlf" ->
         IF t[i][1] = "\r" /\ i < Len(t) /\ t[i + 1][1] = "\n" THEN <<>> ELSE <<t[i]>>
    [] kind = "tabs" ->
         IF ~IsTabOrNbsp(t[i][1]) THEN <<t[i]>>
         ELSE IF i > 1 /\ IsTabOrNbsp(t[i - 1][1]) THEN <<>>
         ELSE Str(<<" ">>)
    [] kind = "wsnl" ->
         IF /\ IsSpace(t[i][1])
            /\ \E p \in (i + 1)..RunEnd(t, i, IsSpace) : t[p][1] = "\n"
         THEN <<>> ELSE <<t[i]>>
    [] kind = "nlruns" ->
         IF t[i][1] = "\n" /\ i > 2 /\ t[i - 1][1] = "\n" /\ t[i - 2][1] = "\n"
         THEN <<>> ELSE <<t[i]>>

RECURSIVE SubRange(_, _, _, _)
\* the substitution applied to atoms a..b of t, joined by halves
SubRange(kind, t, a, b) ==
  IF a > b THEN <<>>
  ELSE IF a = b THEN SubAtom(kind, t, a)
  ELSE SubRange(kind, t, a, (a + b) \div 2) \o SubRange(kind, t, (a + b) \div 2 + 1, b)

\* text.replace("\r\n", "\n")
ReplaceCrLf(t) == SubRange("crlf", t, 1, Len(t))

\* s.replace(a, b) and re.sub of one-character alternatives
ReplaceChars(t, from, to) ==
  [i \in 1..Len(t) |-> IF t[i][1] \in from THEN <<to, t[i][2]>> ELSE t[i]]

\* re.sub(r"[\t\u00A0]+", " ", t)
SubTabRuns(t) == SubRange("tabs", t, 1, Len(t))

RECURSIVE DropOneBeforeNl(_, _)
DropOneBeforeNl(t, i) ==
  IF i > Len(t) THEN <<>>
  ELSE IF IsSpace(t[i][1]) /\ i < Len(t) /\ t[i + 1][1] = "\n"
       THEN DropOneBeforeNl(t, i + 1)
       ELSE <<t[i]>> \o DropOneBeforeNl(t, i + 1)

\* a substitution that removes only the one whitespace character right
\* before a line break
SubOneWsNl(t) == DropOneBeforeNl(t, 1)

\* re.sub(r"\s+\n", "\n", t)
SubWsNl(t) == SubRange("wsnl", t, 1, Len(t))

\* re.sub(r"\n{3,}", "\n\n", t)
SubNlRuns(t) == SubRange("nlruns", t, 1, Len(t))

\* the statements of normalize_text, each applied to the result of the one
\* before it, the first innermost
normalize_text(text) ==
  LET cr(t) == ReplaceChars(t, {"\r"}, "\n")
      dq(t) == ReplaceChars(t, {"LDQ", "RDQ"}, "\"")
      sq(t) == ReplaceChars(t, {"LSQ", "RSQ"}, "'")
  IN  Apply(Strip,
        Apply(SubNlRuns,
          Apply(SubWsNl,
            Apply(sq,
              Apply(dq,
                Apply(SubTabRuns,
                  Apply(cr,
                    Apply(ReplaceCrLf, text))))))))

\* s[:n]
TakeChars(s, n) ==
  IF n <= 0 \/ s = <<>> THEN <<>>
  ELSE LET k == CHOOSE j \in 0..Len(s) :
                  /\ CharLenOf(s, 1, j) <= n
                  /\ j < Len(s) => CharLenOf(s, 1, j + 1) > n
       IN  IF k = Len(s) \/ CharLenOf(s, 1, k) = n THEN Slice(s, 1, k)
           ELSE Slice(s, 1, k) \o <<<<s[k + 1][1], n - CharLenOf(s, 1, k)>>>>

\* a clamp that never cuts
NoClamp(s, n) == s

clamp(s, n) ==
  IF CharLen(s) <= n THEN s ELSE TakeChars(s, n) \o Str(<<"ELLIPSIS">>)

(***************************************************************************)
(* extract_eclis                                                           *)
(*   ECLI_RE = \bECLI:[A-Z]{2}:[A-Z]{2,}:\d{4}:[A-Z0-9]+(?:-\d+)?\b  (re.I) *)
(***************************************************************************)
IsAlnum(c) == IsAlpha(c) \/ IsDigit(c)

\* the last atom of the match of ECLI_RE that starts at atom s, 0 if none.
\* Every quantifier is greedy; the only choice backtracking leaves is to give
\* up the "-digits" suffix when no \b follows it.
EcliMatchEnd(t, s) ==
  LET courtEnd == RunEnd(t, s + 8, IsAlpha)
      idEnd    == RunEnd(t, courtEnd + 7, IsAlnum)
      sufEnd   == RunEnd(t, idEnd + 2, IsDigit)
  IN  IF /\ BoundaryAt(t, s)
         /\ UpperText(Slice(t, s, s + 4)) = Str(<<"E","C","L","I",":">>)
         /\ OneOf(t, s + 5, IsAlpha) /\ OneOf(t, s + 6, IsAlpha)
         /\ IsChar(t, s + 7, ":")
         /\ CharLen(Slice(t, s + 8, courtEnd)) >= 2
         /\ IsChar(t, courtEnd + 1, ":")
         /\ \A k \in 2..5 : OneOf(t, courtEnd + k, IsDigit)
         /\ IsChar(t, courtEnd + 6, ":")
         /\ idEnd >= courtEnd + 7
      THEN IF IsChar(t, idEnd + 1, "-") /\ sufEnd >= idEnd + 2
              /\ BoundaryAt(t, sufEnd + 1)
           THEN sufEnd
           ELSE IF BoundaryAt(t, idEnd + 1) THEN idEnd ELSE 0
      ELSE 0

\* the match of ECLI_RE that starts at atom s as <<text, start, end>> with
\* Python's offsets (the match is t[start:end]), <<>> if none
EcliAt(t, s) ==
  IF EcliMatchEnd(t, s) = 0 THEN <<>>
  ELSE <<Slice(t, s, EcliMatchEnd(t, s)), s - 1, EcliMatchEnd(t, s)>>

RECURSIVE EcliRange(_, _, _)
\* the matches of ECLI_RE that start at atoms a..b, joined by halves
EcliRange(t, a, b) ==
  IF a > b THEN <<>>
  ELSE IF a = b THEN (IF EcliAt(t, a) = <<>> THEN <<>> ELSE <<EcliAt(t, a)>>)
  ELSE EcliRange(t, a, (a + b) \div 2) \o EcliRange(t, (a + b) \div 2 + 1, b)

\* [m.group(0).upper() for m in ECLI_RE.finditer(text)]
EcliFindIter(t) ==
  LET ms == NonOverlapping(EcliRange(t, 1, Len(t)), 1, 0)
  IN  [k \in 1..Len(ms) |-> UpperText(ms[k][1])]

\* a list that keeps its duplicates
KeepAll(s, seen) == s

RECURSIVE FromKeys(_, _)
\* list(dict.fromkeys(s)): the first occurrence of each element, in order
FromKeys(s, seen) ==
  IF s = <<>> THEN <<>>
  ELSE IF Head(s) \in seen THEN FromKeys(Tail(s), seen)
  ELSE <<Head(s)>> \o FromKeys(Tail(s), seen \cup {Head(s)})

extract_eclis(text) == FromKeys(EcliFindIter(text), {})

(***************************************************************************)
(* _collect_headers, segment_rechtsoverwegingen                            *)
(*   RO_HEADER_RE  = \b(?:r\.?o\.?|rov\.)\s*(\d+(?:\.\d+){0,3})\b   (re.I)  *)
(*   NUM_HEADER_RE = ^(\d+(?:\.\d+){0,3})(?=[\s:EMDASH\-])    (re.MULTILINE)*)
(* A header is <<num, start, end>> with Python's offsets counted in atoms: *)
(* the match is t[start:end], i.e. atoms start + 1 .. end.                 *)
(***************************************************************************)
\* the last atom of the digit run at atom i followed by k more ".digits"
\* components (i - 1 when atom i is no digit, or a component is missing)
RECURSIVE NumberEnd(_, _, _)
NumberEnd(t, i, k) ==
  LET e == RunEnd(t, i, IsDigit)
  IN  IF e < i THEN i - 1
      ELSE IF k = 0 THEN e
      ELSE IF IsChar(t, e + 1, ".") /\ NumberEnd(t, e + 2, k - 1) >= e + 2
           THEN NumberEnd(t, e + 2, k - 1)
           ELSE i - 1

\* the most ".digits" components (0..3) that follow the digit run at atom i
MaxComponents(t, i) ==
  CHOOSE k \in 0..3 :
    /\ NumberEnd(t, i, k) >= i
    /\ \A j \in (k + 1)..3 : NumberEnd(t, i, j) < i

\* the last atom of the match of the group (\d+(?:\.\d+){0,3}) followed by \b
\* at atom i, 0 if none: the longest number is tried first, then one
\* component less
NumberWithBoundaryEnd(t, i) ==
  IF RunEnd(t, i, IsDigit) < i THEN 0
  ELSE LET k == MaxComponents(t, i)
       IN  IF BoundaryAt(t, NumberEnd(t, i, k) + 1) THEN NumberEnd(t, i, k)
           ELSE IF k >= 1 THEN NumberEnd(t, i, k - 1)
           ELSE 0

\* the last atom of the marker r\.?o\.? at atom s, 0 if none
RoMarkerEnd(t, s) ==
  LET lo == LowerText(Slice(t, s, s + 3))
      a  == IF IsChar(lo, 2, ".") THEN 2 ELSE 1
      b  == IF IsChar(lo, a + 2, ".") THEN a + 2 ELSE a + 1
  IN  IF IsChar(lo, 1, "r") /\ IsChar(lo, a + 1, "o") THEN s + b - 1 ELSE 0

\* the last atom of the marker rov\. at atom s, 0 if none
RovMarkerEnd(t, s) ==
  IF LowerText(Slice(t, s, s + 3)) = Str(<<"r","o","v",".">>) THEN s + 3 ELSE 0

\* the header matched by the marker ending at atom m: <<num, start, end>>, or
\* <<>> if no number follows
HeaderAfterMarker(t, s, m) ==
  LET i == RunEnd(t, m + 1, IsSpace) + 1
      e == NumberWithBoundaryEnd(t, i)
  IN  IF m = 0 \/ e = 0 THEN <<>> ELSE <<Slice(t, i, e), s - 1, e>>

\* the match of RO_HEADER_RE that starts at atom s, <<>> if none
RoHeaderAt(t, s) ==
  LET ro == HeaderAfterMarker(t, s, RoMarkerEnd(t, s))
  IN  IF ~BoundaryAt(t, s) THEN <<>>
      ELSE IF ro # <<>> THEN ro
      ELSE HeaderAfterMarker(t, s, RovMarkerEnd(t, s))

RECURSIVE RoRange(_, _, _)
\* the matches of RO_HEADER_RE that start at atoms a..b, joined by halves
RoRange(t, a, b) ==
  IF a > b THEN <<>>
  ELSE IF a = b THEN (IF RoHeaderAt(t, a) = <<>> THEN <<>> ELSE <<RoHeaderAt(t, a)>>)
  ELSE RoRange(t, a, (a + b) \div 2) \o RoRange(t, (a + b) \div 2 + 1, b)

\* [(m.group(1), m.start(), m.end()) for m in RO_HEADER_RE.finditer(text)]
RoHeaders(t) == NonOverlapping(RoRange(t, 1, Len(t)), 1, 0)

IsHeaderDelimiter(c) == IsSpace(c) \/ c \in {":", "EMDASH", "-"}

\* the match of NUM_HEADER_RE that starts at atom s, <<>> if none
NumHeaderAt(t, s) ==
  IF /\ s = 1 \/ t[s - 1][1] = "\n"
     /\ RunEnd(t, s, IsDigit) >= s
  THEN LET e == NumberEnd(t, s, MaxComponents(t, s))
       IN  IF e + 1 <= Len(t) /\ IsHeaderDelimiter(t[e + 1][1])
           THEN <<Slice(t, s, e), s - 1, e>>
           ELSE <<>>
  ELSE <<>>

RECURSIVE DigitsValue(_, _)
\* int() of a run of digits
DigitsValue(d, acc) ==
  IF d = <<>> THEN acc
  ELSE DigitsValue(Tail(d), 10 * acc + (CodePoint(d[1][1]) - 48))

\* a first component that always passes the test on `first`
FirstIsOne(num) == 1

\* int(num.split('.')[0])
FirstComponent(num) == DigitsValue(Slice(num, 1, RunEnd(num, 1, IsDigit)), 0)

\* 0 < first <= 50
AcceptedNum(h) == 0 < FirstComponent(h[1]) /\ FirstComponent(h[1]) <= 50

RECURSIVE NumRange(_, _, _)
\* the matches of NUM_HEADER_RE that start at atoms a..b, joined by halves
NumRange(t, a, b) ==
  IF a > b THEN <<>>
  ELSE IF a = b THEN (IF NumHeaderAt(t, a) = <<>> THEN <<>> ELSE <<NumHeaderAt(t, a)>>)
  ELSE NumRange(t, a, (a + b) \div 2) \o NumRange(t, (a + b) \div 2 + 1, b)

\* the loop over NUM_HEADER_RE.finditer(text) with its test on `first`
NumHeaders(t) == SelectSeq(NonOverlapping(NumRange(t, 1, Len(t)), 1, 0), AcceptedNum)

\* the bare-number headers taken whether or not a marker was found
CollectBoth(text) ==
  IF RoHeaders(text) # <<>> /\ NumHeaders(text) # <<>>
  THEN RoHeaders(text) \o NumHeaders(text)
  ELSE IF RoHeaders(text) # <<>> THEN RoHeaders(text) ELSE NumHeaders(text)

\* both lists are built in increasing start offset, which the final
\* headers.sort(key=start) keeps
_collect_headers(text) ==
  IF RoHeaders(text) # <<>> THEN RoHeaders(text) ELSE NumHeaders(text)

\* re.sub(r"^\s*[:\-EMDASH]\s*", "", content)
StripLeadingPunct(content) ==
  LET i == RunEnd(content, 1, IsSpace) + 1
  IN  IF i <= Len(content) /\ content[i][1] \in {":", "-", "EMDASH"} /\ content[i][2] = 1
      THEN Slice(content, RunEnd(content, i + 1, IsSpace) + 1, Len(content))
      ELSE content

RECURSIVE StripNumRepeats(_, _)
\* re.sub(rf"^(?:{re.escape(num)}\.?\s*)+", "", content)
StripNumRepeats(content, num) ==
  IF OccursAt(num, content, 1)
  THEN LET a == IF IsChar(content, Len(num) + 1, ".") THEN Len(num) + 1 ELSE Len(num)
       IN  StripNumRepeats(Slice(content, RunEnd(content, a + 1, IsSpace) + 1, Len(content)), num)
  ELSE content

\* the text between two headers as it stands, neither stripped nor cleaned
RawContent(t, headers, i) ==
  Slice(t, headers[i][3] + 1, IF i + 1 <= Len(headers) THEN headers[i + 1][2] ELSE Len(t))

\* the content of the block of headers[i] in the normalised text t
BlockContent(t, headers, i) ==
  LET next_start == IF i + 1 <= Len(headers) THEN headers[i + 1][2] ELSE Len(t)
      content    == Strip(Slice(t, headers[i][3] + 1, next_start))
  IN  StripNumRepeats(StripLeadingPunct(content), headers[i][1])

RECURSIVE SegmentLoop(_, _, _)
\* the for loop of segment_rechtsoverwegingen from headers[i] on
SegmentLoop(t, headers, i) ==
  LET content == BlockContent(t, headers, i)
  IN  IF i > Len(headers) THEN <<>>
      ELSE (IF content # <<>> THEN <<<<headers[i][1], content>>>> ELSE <<>>)
             \o SegmentLoop(t, headers, i + 1)

segment_rechtsoverwegingen(text) ==
  LET blocks_of(t) ==
        LET loop(headers) == SegmentLoop(t, headers, 1)
        IN  Apply(loop, _collect_headers(t))
  IN  Apply(blocks_of, normalize_text(text))

(***************************************************************************)
(* score_block: scores are kept in tenths (2.0 is 20); the binary rounding *)
(* of the float sum is not modelled                                        *)
(***************************************************************************)
KEYWORDS_STRONG ==
  << Str(<<"r","e","c","h","t","s","r","e","g","e","l">>),
     Str(<<"t","o","e","t","s","i","n","g","s","k","a","d","e","r">>),
     Str(<<"m","a","a","t","s","t","a","f">>),
     Str(<<"o","o","r","d","e","e","l","t">>),
     Str(<<"o","v","e","r","w","e","e","g","t">>),
     Str(<<"s","c","h","e","n","d","i","n","g">>),
     Str(<<"n","i","e","t","-","o","n","t","v","a","n","k","e","l","i","j","k">>),
     Str(<<"v","e","r","w","e","r","p","t">>),
     Str(<<"g","e","g","r","o","n","d">>),
     Str(<<"o","n","g","e","g","r","o","n","d">>),
     Str(<<"c","a","s","s","a","t","i","e">>),
     Str(<<"s","l","u","i","t"," ","a","a","n"," ","b","i","j">>),
     Str(<<"a","r","t",".">>),
     Str(<<"a","r","t","i","k","e","l">>),
     Str(<<"e","v","r","m">>),
     Str(<<"b","w">>),
     Str(<<"s","r">>),
     Str(<<"s","v">>),
     Str(<<"p","r","o","p","o","r","t","i","o","n","a","l","i","t","e","i","t">>),
     Str(<<"s","u","b","s","i","d","i","a","r","i","t","e","i","t">>),
     Str(<<"m","o","t","i","v","e","r","i","n","g","s","g","e","b","r","e","k">>),
     Str(<<"b","e","l","a","n","g","e","n","a","f","w","e","g","i","n","g">>),
     Str(<<"k","w","a","l","i","f","i","c","a","t","i","e">>) >>

\* re.search(r"\bart\.\s*\d+", text)
ArtCitation(text) ==
  \E i \in 1..Len(text) :
    /\ BoundaryAt(text, i)
    /\ OccursAt(Str(<<"a","r","t",".">>), text, i)
    /\ LET j == RunEnd(text, i + 4, IsSpace)
       IN  j + 1 <= Len(text) /\ IsDigit(text[j + 1][1])

\* num.count('.')
CountDots(num) == Cardinality({i \in 1..Len(num) : num[i][1] = "."})

LengthScore(n) ==
  IF 250 <= n /\ n <= 1200 THEN 12
  ELSE IF n > 1800 THEN -6
  ELSE IF n < 120 THEN -4
  ELSE 0

score_block(num, content, has_ecli) ==
  LET text == LowerText(num \o Str(<<" ">>) \o content)
  IN  20 * Cardinality({k \in 1..Len(KEYWORDS_STRONG) : Contains(KEYWORDS_STRONG[k], text)})
      + (IF ArtCitation(text) THEN 15 ELSE 0)
      + (IF Contains(Str(<<"e","v","r","m">>), text) THEN 10 ELSE 0)
      + LengthScore(CharLen(content))
      + (IF has_ecli THEN 3 ELSE 0)
      + Min(9, 3 * CountDots(num))

(***************************************************************************)
(* rank_ro_blocks; a block is a pair <<num, content>>                      *)
(***************************************************************************)
RECURSIVE StartsWith(_, _)
\* n.startswith(prefix)
StartsWith(n, prefix) ==
  IF prefix = <<>> THEN TRUE
  ELSE IF n = <<>> THEN FALSE
  ELSE IF n[1][1] # prefix[1][1] \/ n[1][2] < prefix[1][2] THEN FALSE
  ELSE IF n[1][2] = prefix[1][2] THEN StartsWith(Tail(n), Tail(prefix))
  ELSE Tail(prefix) = <<>>

_has_children(num, all_nums) ==
  \E i \in 1..Len(all_nums) : StartsWith(all_nums[i], num \o Str(<<".">>))

\* [num for num, _ in blocks]
AllNums(blocks) == [i \in 1..Len(blocks) |-> blocks[i][1]]

\* a filter that drops no block
KeepEveryParent(blocks, i) == FALSE

\* a filter that drops every short block, with children or without
ShortBlock(blocks, i) == CharLen(blocks[i][2]) < MIN_PARENT_LEN

\* the test that drops a block from `filtered`
ShortParent(blocks, i) ==
  /\ _has_children(blocks[i][1], AllNums(blocks))
  /\ CharLen(blocks[i][2]) < MIN_PARENT_LEN

RECURSIVE FilterLoop(_, _)
\* the indices (in `blocks`) of the blocks kept in `filtered`, from block i on
FilterLoop(blocks, i) ==
  IF i > Len(blocks) THEN <<>>
  ELSE IF ShortParent(blocks, i) THEN FilterLoop(blocks, i + 1)
  ELSE <<i>> \o FilterLoop(blocks, i + 1)

Filtered(blocks) == FilterLoop(blocks, 1)

RECURSIVE ScoredLoop(_, _, _, _)
\* scored: (num, content, score, len(content)) of each filtered block; src is
\* the block's index in `blocks`
ScoredLoop(blocks, f, k, has_ecli) ==
  IF k > Len(f) THEN <<>>
  ELSE <<[num |-> blocks[f[k]][1], content |-> blocks[f[k]][2],
          score |-> score_block(blocks[f[k]][1], blocks[f[k]][2], has_ecli),
          len |-> CharLen(blocks[f[k]][2]), src |-> f[k]]>>
         \o ScoredLoop(blocks, f, k + 1, has_ecli)

Scored(blocks, has_ecli) == ScoredLoop(blocks, Filtered(blocks), 1, has_ecli)

\* an ascending order of scores
KeyLessAscending(a, b) ==
  \/ a.score < b.score
  \/ a.score = b.score /\ a.len > b.len
  \/ a.score = b.score /\ a.len = b.len /\ StrLess(a.num, b.num)

\* key(a) < key(b) for key = (-score, -len, num): tuples compare item by item
KeyLess(a, b) ==
  \/ a.score > b.score
  \/ a.score = b.score /\ a.len > b.len
  \/ a.score = b.score /\ a.len = b.len /\ StrLess(a.num, b.num)

RECURSIVE InsertBeforeEqual(_, _)
\* an unstable sort: x placed before the elements that compare equal to it
InsertBeforeEqual(sorted, x) ==
  IF sorted = <<>> THEN <<x>>
  ELSE IF ~KeyLess(Head(sorted), x) THEN <<x>> \o sorted
  ELSE <<Head(sorted)>> \o InsertBeforeEqual(Tail(sorted), x)

RECURSIVE InsertSorted(_, _)
\* x placed before the first element that sorts strictly after it
InsertSorted(sorted, x) ==
  IF sorted = <<>> THEN <<x>>
  ELSE IF KeyLess(x, Head(sorted)) THEN <<x>> \o sorted
  ELSE <<Head(sorted)>> \o InsertSorted(Tail(sorted), x)

RECURSIVE SortLoop(_, _)
SortLoop(s, sorted) ==
  IF s = <<>> THEN sorted ELSE SortLoop(Tail(s), InsertSorted(sorted, Head(s)))

\* list.sort(key=...): ascending by key, stable
StableSort(s) == SortLoop(s, <<>>)

RECURSIVE TopLoop(_, _, _, _, _)
\* the selection loop of rank_ro_blocks from scored[i] on
TopLoop(scored, i, top, seen, topk) ==
  IF i > Len(scored) THEN top
  ELSE IF scored[i].num \in seen THEN TopLoop(scored, i + 1, top, seen, topk)
  ELSE LET top2 == Append(top, [num  |-> scored[i].num,
                                text |-> clamp(Strip(scored[i].content), RO_MAX_CHARS),
                                src  |-> scored[i].src])
       IN  IF Len(top2) >= topk THEN top2
           ELSE TopLoop(scored, i + 1, top2, seen \cup {scored[i].num}, topk)

\* `top` with, for each entry, the index of the block it was made from
RankTop(blocks, text, topk) ==
  TopLoop(StableSort(Scored(blocks, extract_eclis(text) # <<>>)), 1, <<>>, {}, topk)

\* the (num, text) pairs of `top`, and the indices of their blocks
TopPairs(top)   == [k \in 1..Len(top) |-> <<top[k].num, top[k].text>>]
TopSources(top) == [k \in 1..Len(top) |-> top[k].src]

rank_ro_blocks(blocks, text, topk) == TopPairs(RankTop(blocks, text, topk))

(***************************************************************************)
(* JSON values: the result of json.loads on the collaborator's response    *)
(***************************************************************************)
JString(s) == [t |-> "string", v |-> s]
JArray(a)  == [t |-> "array",  v |-> a]
JObject(f) == [t |-> "object", v |-> f]
JNumber(n) == [t |-> "number", v |-> n]

RULE        == Str(<<"R","u","l","e">>)
APPLICATION == Str(<<"A","p","p","l","i","c","a","t","i","o","n">>)
CONCLUSION  == Str(<<"C","o","n","c","l","u","s","i","o","n">>)
OVERIG      == Str(<<"O","v","e","r","i","g">>)

(***************************************************************************)
(* IRAC_SCHEMA and _validate_irac: the schema keywords the program uses    *)
(* (type, properties, required, additionalProperties, items, enum) with    *)
(* their JSON-Schema meaning                                               *)
(***************************************************************************)
ROL_ENUM == {RULE, APPLICATION, CONCLUSION, OVERIG}

RO_PROPERTIES == {"ro_nummer", "rol", "quote", "inhoud", "citaten"}
RO_REQUIRED   == {"ro_nummer", "rol", "quote", "inhoud", "citaten"}

IRAC_PROPERTIES ==
  {"Issue", "Rule", "Application", "Conclusion", "Rechtsoverwegingen", "Bronnen"}
IRAC_REQUIRED ==
  {"Issue", "Rule", "Application", "Conclusion", "Rechtsoverwegingen", "Bronnen"}

\* {"type": "string"}
ValidString(x) == x.t = "string"

\* {"type": "string", "enum": [...]}
ValidRol(x) == x.t = "string" /\ x.v \in ROL_ENUM

\* {"type": "array", "items": {"type": "string"}}
ValidStringArray(x) ==
  x.t = "array" /\ \A i \in 1..Len(x.v) : ValidString(x.v[i])

\* one property of an item of Rechtsoverwegingen
ValidRoProperty(k, x) ==
  CASE k = "rol"     -> ValidRol(x)
    [] k = "citaten" -> ValidStringArray(x)
    [] OTHER         -> ValidString(x)

\* ValidRoItem without "additionalProperties": False
ValidRoItemOpen(x) ==
  /\ x.t = "object"
  /\ RO_REQUIRED \subseteq DOMAIN x.v
  /\ \A k \in DOMAIN x.v \cap RO_PROPERTIES : ValidRoProperty(k, x.v[k])

\* the items schema of Rechtsoverwegingen
ValidRoItem(x) ==
  /\ x.t = "object"
  /\ RO_REQUIRED \subseteq DOMAIN x.v
  /\ DOMAIN x.v \subseteq RO_PROPERTIES
  /\ \A k \in DOMAIN x.v : ValidRoProperty(k, x.v[k])

ValidRoArray(x) ==
  x.t = "array" /\ \A i \in 1..Len(x.v) : ValidRoItem(x.v[i])

\* one top-level property
ValidIracProperty(k, x) ==
  CASE k = "Rechtsoverwegingen" -> ValidRoArray(x)
    [] k = "Bronnen"            -> ValidStringArray(x)
    [] OTHER                    -> ValidString(x)

\* a validator that never raises
AcceptEvery(data) == TRUE

\* TRUE iff Draft202012Validator(IRAC_SCHEMA).validate(data) raises nothing,
\* i.e. iff _validate_irac returns instead of raising LLMError
_validate_irac(data) ==
  /\ data.t = "object"
  /\ IRAC_REQUIRED \subseteq DOMAIN data.v
  /\ DOMAIN data.v \subseteq IRAC_PROPERTIES
  /\ \A k \in DOMAIN data.v : ValidIracProperty(k, data.v[k])

(***************************************************************************)
(* Role guardrail: _pick_best_for_role, _enforce_min_roles,                *)
(* _deny_unknown_ro_nums                                                   *)
(***************************************************************************)
want_kw_Rule ==
  << Str(<<"r","e","c","h","t","s","r","e","g","e","l">>),
     Str(<<"m","a","a","t","s","t","a","f">>),
     Str(<<"t","o","e","t","s","i","n","g","s","k","a","d","e","r">>),
     Str(<<"v","o","l","g","t"," ","u","i","t">>),
     Str(<<"h","e","e","f","t"," ","t","e"," ","g","e","l","d","e","n">>) >>
want_kw_Application ==
  << Str(<<"t","o","e","g","e","p","a","s","t">>),
     Str(<<"i","n"," ","c","a","s","u">>),
     Str(<<"i","n"," ","d","i","t"," ","g","e","v","a","l">>),
     Str(<<"h","e","t"," ","h","o","f">>),
     Str(<<"d","e"," ","r","e","c","h","t","b","a","n","k">>),
     Str(<<"p","a","s","t"," ","t","o","e">>) >>
want_kw_Conclusion ==
  << Str(<<"c","o","n","c","l","u","d","e","e","r","t">>),
     Str(<<"o","o","r","d","e","e","l","t">>),
     Str(<<"v","e","r","o","o","r","d","e","e","l","t">>),
     Str(<<"v","e","r","n","i","e","t","i","g","t">>),
     Str(<<"v","e","r","w","e","r","p","t">>),
     Str(<<"g","e","g","r","o","n","d">>),
     Str(<<"o","n","g","e","g","r","o","n","d">>),
     Str(<<"b","e","s","l","i","s","t">>) >>

want_kw(want) ==
  CASE want = RULE        -> want_kw_Rule
    [] want = APPLICATION -> want_kw_Application
    [] want = CONCLUSION  -> want_kw_Conclusion
    [] OTHER              -> <<>>

\* data.get("Rechtsoverwegingen", []) of a validated response
Ros(data) == data.v.Rechtsoverwegingen.v

RoNummer(ro) == ro.v.ro_nummer.v
Rol(ro)      == ro.v.rol.v

\* (ro.get("inhoud", "") + " " + ro.get("quote", "")).lower()
RoText(ro) == LowerText(ro.v.inhoud.v \o Str(<<" ">>) \o ro.v.quote.v)

\* sum(1 for kw in want_kw if kw in text)
RoleScore(ro, want) ==
  Cardinality({k \in 1..Len(want_kw(want)) : Contains(want_kw(want)[k], RoText(ro))})

RECURSIVE PickLoopAnyRol(_, _, _, _, _)
\* PickLoop without the test on rol: a block of any role can be picked
PickLoopAnyRol(items, want, i, best_i, best_score) ==
  IF i > Len(items) THEN best_i
  ELSE IF RoleScore(items[i], want) > best_score
       THEN PickLoopAnyRol(items, want, i + 1, i, RoleScore(items[i], want))
       ELSE PickLoopAnyRol(items, want, i + 1, best_i, best_score)

RECURSIVE PickLoop(_, _, _, _, _)
\* the for loop of _pick_best_for_role from item i on; best_i = 0 is None
PickLoop(items, want, i, best_i, best_score) ==
  IF i > Len(items) THEN best_i
  ELSE IF Rol(items[i]) = OVERIG /\ RoleScore(items[i], want) > best_score
       THEN PickLoop(items, want, i + 1, i, RoleScore(items[i], want))
       ELSE PickLoop(items, want, i + 1, best_i, best_score)

RECURSIVE PickLoopLast(_, _, _, _, _)
\* PickLoop with `score >= best_score and score > 0`: the last best block wins
PickLoopLast(items, want, i, best_i, best_score) ==
  IF i > Len(items) THEN best_i
  ELSE IF /\ Rol(items[i]) = OVERIG
          /\ RoleScore(items[i], want) >= best_score
          /\ RoleScore(items[i], want) > 0
       THEN PickLoopLast(items, want, i + 1, i, RoleScore(items[i], want))
       ELSE PickLoopLast(items, want, i + 1, best_i, best_score)

PickBestLast(items, want) == PickLoopLast(items, want, 1, 0, 0)

_pick_best_for_role(items, want) == PickLoop(items, want, 1, 0, 0)

SetRol(data, idx, rol) ==
  [data EXCEPT !.v.Rechtsoverwegingen.v[idx].v.rol.v = rol]

\* {"Rule", "Application", "Conclusion"} - set(roles)
NeededRoles(data) ==
  {RULE, APPLICATION, CONCLUSION} \ {Rol(Ros(data)[i]) : i \in 1..Len(Ros(data))}

\* list(needed): a Python set of strings iterates in an order that differs
\* from run to run (string hashing is randomised), so every order is possible
Orders(needed) ==
  {o \in [1..Cardinality(needed) -> needed] :
     \A i, j \in 1..Cardinality(needed) : i # j => o[i] # o[j]}

\* one iteration of the loop of _enforce_min_roles
EnforceOne(data, want) ==
  LET idx == _pick_best_for_role(Ros(data), want)
  IN  IF idx # 0 THEN SetRol(data, idx, want) ELSE data

RECURSIVE EnforceLoop(_, _)
EnforceLoop(data, order) ==
  IF order = <<>> THEN data
  ELSE EnforceLoop(EnforceOne(data, Head(order)), Tail(order))

\* _enforce_min_roles with list(needed) = order
_enforce_min_roles(data, order) == EnforceLoop(data, order)

\* [n for n, _ in ranked_blocks]
CandidateNums(ranked_blocks) == [i \in 1..Len(ranked_blocks) |-> ranked_blocks[i][1]]

SeqToSet(s) == {s[i] : i \in 1..Len(s)}

\* a guard that also empties the quote of the block it demotes
DenyAndClear(ro, allowed) ==
  IF allowed # {} /\ RoNummer(ro) \notin allowed
  THEN [ro EXCEPT !.v.rol.v = OVERIG, !.v.quote.v = <<>>]
  ELSE ro

\* the test of _deny_unknown_ro_nums on one block
DenyOne(ro, allowed) ==
  IF allowed # {} /\ RoNummer(ro) \notin allowed
  THEN [ro EXCEPT !.v.rol.v = OVERIG]
  ELSE ro

_deny_unknown_ro_nums(data, allowed_nums) ==
  [data EXCEPT !.v.Rechtsoverwegingen.v =
     [i \in 1..Len(@) |-> DenyOne(@[i], SeqToSet(allowed_nums))]]

(***************************************************************************)
(* Bounds and sample inputs                                                *)
(***************************************************************************)
\* most blocks in a collaborator response
MaxRos == 2

N3  == Str(<<"3">>)
N31 == Str(<<"3",".","1">>)
N33 == Str(<<"3",".","3">>)
N99 == Str(<<"9",".","9">>)
N10 == Str(<<"1","0">>)

T_geen     == Str(<<"g","e","e","n">>)
T_maatstaf == Str(<<"d","e"," ","m","a","a","t","s","t","a","f"," ","v","o","l","g","t">>)
T_uit      == Str(<<"u","i","t"," ","a","r","t","."," ","6">>)
T_hof      == Str(<<"H","e","t"," ","H","o","f"," ","o","o","r","d","e","e","l","t">>)

\* (inhoud, quote) of the sample blocks: no keyword; two Rule keywords, one of
\* them ("volgt uit") only across the joint of inhoud and quote; one
\* Application and one Conclusion keyword, in capitals
RoTexts == { <<T_geen, <<>> >>, <<T_maatstaf, T_uit>>, <<T_hof, <<>> >> }

RoObj(num, rol, inhoud, quote) ==
  JObject([ro_nummer |-> JString(num), rol |-> JString(rol),
           quote |-> JString(quote), inhoud |-> JString(inhoud),
           citaten |-> JArray(<<>>)])

IracObj(ros) ==
  JObject([Issue |-> JString(T_geen), Rule |-> JString(T_geen),
           Application |-> JString(T_geen), Conclusion |-> JString(T_geen),
           Rechtsoverwegingen |-> JArray(ros), Bronnen |-> JArray(<<>>)])

SeqsUpTo(S, n) == UNION {[1..k -> S] : k \in 0..n}

\* the blocks a schema-valid response may hold
GuardRos ==
  {RoObj(n, r, tq[1], tq[2]) : n \in {N31, N99}, r \in ROL_ENUM, tq \in RoTexts}

GuardResponses == {IracObj(ros) : ros \in SeqsUpTo(GuardRos, MaxRos)}

\* candidate lists offered to the collaborator (contents play no part here)
GuardCandidates ==
  { <<>>, << <<N31, T_geen>> >>, << <<N31, T_geen>>, <<N33, T_geen>> >> }

(***************************************************************************)
(* Defective responses: one defect injected into a schema-valid response   *)
(***************************************************************************)
NoDefect == [kind |-> "none", key |-> "", idx |-> 0]

\* idx = 0: the defect is at top level; idx = i: in block i
DefectsOf(base) ==
  LET n == Len(Ros(base)) IN
       {NoDefect}
  \cup {[kind |-> "missing", key |-> k, idx |-> 0] : k \in IRAC_REQUIRED}
  \cup {[kind |-> "missing", key |-> k, idx |-> i] : k \in RO_REQUIRED, i \in 1..n}
  \cup {[kind |-> "extra", key |-> "Essentie", idx |-> i] : i \in 0..n}
  \cup {[kind |-> "wrongtype", key |-> k, idx |-> 0] : k \in IRAC_PROPERTIES}
  \cup {[kind |-> "wrongtype", key |-> k, idx |-> i] : k \in RO_PROPERTIES, i \in 1..n}
  \cup {[kind |-> "itemtype", key |-> "Bronnen", idx |-> 0]}
  \cup {[kind |-> "itemtype", key |-> "citaten", idx |-> i] : i \in 1..n}
  \cup {[kind |-> "badenum", key |-> "rol", idx |-> i] : i \in 1..n}
  \cup {[kind |-> "notobject", key |-> "", idx |-> i] : i \in 0..n}

Without(f, key) == [k \in DOMAIN f \ {key} |-> f[k]]

DefectInObject(d, obj) ==
  CASE d.kind = "missing"   -> JObject(Without(obj.v, d.key))
    [] d.kind = "extra"     -> JObject(obj.v @@ (d.key :> JString(T_geen)))
    [] d.kind = "wrongtype" -> JObject([obj.v EXCEPT ![d.key] = JNumber(0)])
    [] d.kind = "itemtype"  ->
         JObject([obj.v EXCEPT ![d.key] = JArray(<<JString(T_geen), JNumber(0)>>)])
    [] d.kind = "badenum"   ->
         JObject([obj.v EXCEPT ![d.key] = JString(Str(<<"I","s","s","u","e">>))])
    [] d.kind = "notobject" -> JArray(<<obj>>)
    [] OTHER                -> obj

ApplyDefect(d, base) ==
  IF d.idx = 0 THEN DefectInObject(d, base)
  ELSE [base EXCEPT !.v.Rechtsoverwegingen.v[d.idx] = DefectInObject(d, @)]

\* schema-valid responses for the validator, with any roles
ValidatorBases ==
  {IracObj(ros) :
     ros \in SeqsUpTo({RoObj(N31, r, T_geen, <<>>) : r \in ROL_ENUM}, MaxRos)}

(***************************************************************************)
(* Sample blocks for rank_ro_blocks, as segmentation yields them: stripped *)
(* and non-empty                                                           *)
(***************************************************************************)
\* two keyword-free contents of equal length, below 120 characters
B_kort  == Str(<<"H","e","t"," ","m","i","d","d","e","l"," ","s","l","a","a","g","t",".">>)
B_kort2 == Str(<<"H","e","t"," ","b","e","r","o","e","p"," ","s","l","a","a","g","t",".">>)
\* a keyword-free content of MIN_PARENT_LEN + 10 characters
B_ouder == Fill(MIN_PARENT_LEN + 10)
\* two keywords, an article citation and EVRM, 312 characters
B_evrm  == Str(<<"a","r","t","."," ","6"," ","e","v","r","m"," ">>) \o Fill(300)
\* three keywords, longer than 1800 and than RO_MAX_CHARS
B_lang  == Str(<<"m","a","a","t","s","t","a","f"," ","o","o","r","d","e","e","l","t"," ",
                 "g","e","g","r","o","n","d"," ">>) \o Fill(RO_MAX_CHARS + 200)

\* keyword-free contents of RO_MAX_CHARS characters, and of one blank more
B_vol   == Fill(RO_MAX_CHARS)
B_rand  == Fill(RO_MAX_CHARS) \o Str(<<" ">>)

RankNums     == {N3, N10, N31, N33}
RankContents == {B_kort, B_kort2, B_ouder, B_evrm, B_lang, B_vol, B_rand}

\* most blocks handed to rank_ro_blocks in one call
MaxBlocks == 2
\* topk runs over 0..MaxTopK and the default TOPK_RO
MaxTopK == 1

RankBlockSeqs == SeqsUpTo(RankNums \X RankContents, MaxBlocks)
RankTopKs     == (0..MaxTopK) \cup {TOPK_RO}

D_ecli == Str(<<"E","C","L","I",":","N","L",":","H","R",":","2","0","2","3",":","1","2","3","4">>)
\* the document text handed to rank_ro_blocks: without and with an ECLI
RankDocs == {T_hof, D_ecli}

(***************************************************************************)
(* Sample documents for summarize_case_irac: a document is a sequence of   *)
(* paragraphs, each a line break, an optional header, a space and a body   *)
(***************************************************************************)
N4  == Str(<<"4">>)
N51 == Str(<<"5","1">>)

P_leeg == <<>>
\* a terse body with one keyword
P_kort == Str(<<"H","e","t"," ","h","o","f"," ","o","o","r","d","e","e","l","t",".">>)
\* a keyword-laden body of more than MIN_PARENT_LEN characters
P_lang == Str(<<"D","e"," ","m","a","a","t","s","t","a","f"," ","v","o","l","g","t"," ","u","i","t"," ",
                "a","r","t","."," ","6"," ","E","V","R","M"," ">>) \o Fill(300)

Para(head, num, body) ==
  [head |-> head, num |-> num, body |-> body,
   text |-> Str(<<"\n">>)
            \o (CASE head = "ro"  -> Str(<<"r",".","o","."," ">>) \o num
                  [] head = "rov" -> Str(<<"R","o","v","."," ">>) \o num
                  [] head = "num" -> num
                  [] OTHER        -> <<>>)
            \o Str(<<" ">>) \o body]

\* "r.o. X" paragraphs; bare-number paragraphs (4: a fallback header, 51: a
\* page number); plain paragraphs
Paras ==
  { Para("ro", N3, P_leeg), Para("ro", N3, P_kort), Para("ro", N3, P_lang),
    Para("ro", N31, P_lang), Para("ro", N33, P_lang),
    Para("num", N4, P_kort), Para("num", N51, P_kort),
    Para("none", <<>>, P_kort) }

\* most paragraphs of a document
MaxParas == 3

RECURSIVE CatTexts(_)
CatTexts(ps) == IF ps = <<>> THEN <<>> ELSE Head(ps).text \o CatTexts(Tail(ps))

(***************************************************************************)
(* Sample documents for segment_rechtsoverwegingen called on its own:      *)
(* paragraphs with short bodies under headers of every form                *)
(***************************************************************************)
N03    == Str(<<"0","3">>)
N31234 == Str(<<"3",".","1",".","2",".","3",".","4">>)
N0     == Str(<<"0">>)
N007   == Str(<<"0","0","7">>)
N50    == Str(<<"5","0">>)

P_hof == Str(<<"h","o","f">>)
P_wet == Str(<<"w","e","t">>)

\* "r.o. X" and "Rov. X" paragraphs: a number twice with different bodies,
\* a number with a leading zero, a number of five components; bare-number
\* paragraphs 0, 007, 50 and 51; a plain paragraph
SegParas ==
  { Para("ro", N3, P_hof), Para("ro", N3, P_wet), Para("ro", N03, P_hof),
    Para("rov", N31, P_hof), Para("ro", N31234, P_hof),
    Para("num", N0, P_hof), Para("num", N007, P_hof), Para("num", N50, P_hof),
    Para("num", N51, P_hof), Para("none", <<>>, P_hof) }

\* most paragraphs of such a document
MaxSegParas == 3

(***************************************************************************)
(* Sample documents for extract_eclis: citations, each after a separator   *)
(***************************************************************************)
E_hr  == D_ecli
E_phr == Str(<<"E","C","L","I",":","N","L",":","P","H","R",":","2","0","2","0",":","A","B","1","2","-","3">>)

Citation(sep, id, text) == [sep |-> sep, id |-> id, text |-> sep \o text]

EcliSeps ==
  { Str(<<" ">>), Str(<<",","NBSP">>), Str(<<"\r","\n","\r","\n","\t","\r","\n">>) }

\* the spellings of the two identifiers found in the samples
EcliSpellings ==
  { <<E_hr, E_hr>>,
    <<E_hr, Str(<<"e","c","l","i",":","n","l",":","h","r",":","2","0","2","3",":","1","2","3","4">>)>>,
    <<E_hr, Str(<<"E","c","l","i",":","N","L",":","h","r",":","2","0","2","3",":","1","2","3","4">>)>>,
    <<E_phr, E_phr>>,
    <<E_phr, Str(<<"e","c","l","i",":","n","l",":","p","h","r",":","2","0","2","0",":","a","b","1","2","-","3">>)>> }

Citations == {Citation(s, e[1], e[2]) : s \in EcliSeps, e \in EcliSpellings}

\* most citations in a document
MaxEclis == 2

(***************************************************************************)
(* Sample replies of the collaborator and arguments of                     *)
(* call_llm_irac_with_ranking                                              *)
(***************************************************************************)
\* most attempts the caller allows
MaxRetries == 2

\* most sources in a response
MaxBronnen == 2

\* the sources a response names: an identifier as extract_eclis spells it,
\* the same in lower case, and another identifier
CallSources == {JString(E_hr), JString(LowerText(E_hr)), JString(E_phr)}

\* the identifiers extracted from the document: upper case, each once
CallEclis == { <<>>, <<E_hr>>, <<E_phr, E_hr>> }

WithBronnen(obj, bronnen) == [obj EXCEPT !.v.Bronnen = JArray(bronnen)]

\* schema-valid responses: with and without a block, with any sources
CallResponses ==
  {WithBronnen(IracObj(ros), b) :
     ros \in {<<>>, <<RoObj(N31, RULE, T_maatstaf, T_uit)>>},
     b \in SeqsUpTo(CallSources, MaxBronnen)}

\* the defect of a response that fails validation
CallDefect == [kind |-> "missing", key |-> "Bronnen", idx |-> 0]

(***************************************************************************)
(* State                                                                   *)
(***************************************************************************)
VARIABLES
  pc,         \* the next step of the function under way
  parts,      \* the paragraphs or citations the input text was built from
  tekst,      \* the input text
  tekst_norm, \* summarize_case_irac: the normalised text
  eclis,      \* summarize_case_irac: the extracted identifiers
  blocks,     \* the segmented blocks, the input of rank_ro_blocks
  topk,       \* topk / max_ro_in_prompt
  ranked,     \* ranked_blocks / top_blocks: the candidates offered
  picked,     \* for each candidate, the index in blocks of its block
  calls,      \* the functions of the module called so far, in order
  resp,       \* the parsed response as the collaborator returned it
  defect,     \* the defect the response carries (NoDefect: none)
  data,       \* the structure being validated and repaired (Python's data)
  order,      \* the order in which _enforce_min_roles walked the missing roles
  attempt,    \* call_llm_irac_with_ranking: the loop variable
  max_retries,
  exc,        \* the exception in flight or raised to the caller (NoExc: none)
  last_err,   \* call_llm_irac_with_ranking: last_err
  outcomes,   \* how each attempt made so far ended, in order
  backoff,    \* call_llm_irac_with_ranking: backoff, in hundredths of a second
  slept,      \* the time.sleep calls made so far: their arguments, in hundredths
  headers,    \* the result of _collect_headers called on its own
  score,      \* the result of score_block called on its own, in tenths
  runs,       \* the local variables of each of two interleaved runs
  norm_t      \* segment_rechtsoverwegingen: t, for a text normalised before

vars == <<pc, parts, tekst, tekst_norm, eclis, blocks, topk, ranked, picked,
          calls, resp, defect, data, order, attempt, max_retries, exc,
          last_err, outcomes, backoff, slept, headers, score, runs, norm_t>>

sleepVars == <<backoff, slept>>
callVars == <<attempt, max_retries, exc, last_err, outcomes, backoff, slept>>
sideVars == <<headers, score, runs, norm_t>>
respVars == <<resp, defect, data, order, attempt, max_retries, exc, last_err,
              outcomes, backoff, slept>>
prepVars == <<parts, tekst, tekst_norm, eclis, blocks, topk, picked, headers,
              score, runs, norm_t>>

\* an exception: its class and the pieces of its message; None when no
\* exception was raised
NoExc == [type |-> "None", message |-> <<"None">>]

\* no call of the collaborator is under way
NoCall ==
  /\ attempt = 1
  /\ max_retries = 1
  /\ exc = NoExc
  /\ last_err = NoExc
  /\ outcomes = <<>>
  /\ backoff = 200
  /\ slept = <<>>

\* no function is being called on its own
NoSide ==
  /\ headers = <<>>
  /\ score = 0
  /\ runs = <<>>
  /\ norm_t = <<>>

\* no response has arrived
NoResponse ==
  /\ defect = NoDefect
  /\ resp = IracObj(<<>>)
  /\ data = resp
  /\ order = <<>>
  /\ NoCall

\* no document is being prepared
NoDocument ==
  /\ parts = <<>>
  /\ tekst = <<>>
  /\ tekst_norm = <<>>
  /\ eclis = <<>>
  /\ blocks = <<>>
  /\ topk = TOPK_RO
  /\ picked = <<>>
  /\ NoSide

(***************************************************************************)
(* rank_ro_blocks called on its own, as testrun.py does                    *)
(***************************************************************************)
Rank ==
  /\ pc = "rank_ro_blocks"
  /\ LET top == RankTop(blocks, tekst, topk)
     IN  ranked' = TopPairs(top) /\ picked' = TopSources(top)
  /\ calls' = Append(calls, "rank_ro_blocks")
  /\ pc' = "ranked"
  /\ UNCHANGED <<parts, tekst, tekst_norm, eclis, blocks, topk>>
  /\ UNCHANGED respVars
  /\ UNCHANGED sideVars

InitRank ==
  /\ pc = "rank_ro_blocks"
  /\ parts = <<>>
  /\ tekst \in RankDocs
  /\ tekst_norm = <<>>
  /\ eclis = <<>>
  /\ blocks \in RankBlockSeqs
  /\ topk \in RankTopKs
  /\ ranked = <<>>
  /\ picked = <<>>
  /\ calls = <<>>
  /\ NoResponse
  /\ NoSide

SpecRank == InitRank /\ [][Rank]_vars

(***************************************************************************)
(* rank_ro_blocks on families of up to three generations                   *)
(***************************************************************************)
N311 == Str(<<"3",".","1",".","1">>)

\* most blocks of a family
MaxFamily == 3

\* blocks numbered 3, 3.1 and 3.1.1, each short or long enough to stay
FamilyBlockSeqs == SeqsUpTo({N3, N31, N311} \X {B_kort, B_ouder}, MaxFamily)

InitFamily ==
  /\ pc = "rank_ro_blocks"
  /\ parts = <<>>
  /\ tekst = T_hof
  /\ tekst_norm = <<>>
  /\ eclis = <<>>
  /\ blocks \in FamilyBlockSeqs
  /\ topk \in {1, TOPK_RO}
  /\ ranked = <<>>
  /\ picked = <<>>
  /\ calls = <<>>
  /\ NoResponse
  /\ NoSide

SpecFamily == InitFamily /\ [][Rank]_vars

(***************************************************************************)
(* score_block on one block, as line 190 of rank_ro_blocks calls it         *)
(***************************************************************************)
\* contents in which a keyword occurs once, twice and three times
B_een  == Str(<<"d","e"," ","m","a","a","t","s","t","a","f">>)
B_twee == Str(<<"m","a","a","t","s","t","a","f"," ","e","n"," ",
                "m","a","a","t","s","t","a","f">>)
B_drie == Str(<<"A","r","t","i","k","e","l"," ","6",","," ","a","r","t","i","k","e","l"," ","7",
                " ","e","n"," ","a","r","t","i","k","e","l"," ","8">>)

ScoreContents == RankContents \cup {B_een, B_twee, B_drie}

Score ==
  /\ pc = "score_block"
  /\ score' = score_block(blocks[1][1], blocks[1][2], extract_eclis(tekst) # <<>>)
  /\ calls' = Append(calls, "score_block")
  /\ pc' = "scored"
  /\ UNCHANGED <<parts, tekst, tekst_norm, eclis, blocks, topk, ranked, picked, headers, runs, norm_t>>
  /\ UNCHANGED respVars

InitScore ==
  /\ pc = "score_block"
  /\ parts = <<>>
  /\ tekst \in RankDocs
  /\ tekst_norm = <<>>
  /\ eclis = <<>>
  /\ blocks \in {<<b>> : b \in RankNums \X ScoreContents}
  /\ topk = TOPK_RO
  /\ ranked = <<>>
  /\ picked = <<>>
  /\ calls = <<>>
  /\ NoResponse
  /\ NoSide

SpecScore == InitScore /\ [][Score]_vars

(***************************************************************************)
(* summarize_case_irac up to the call of the collaborator: lines 413-416   *)
(***************************************************************************)
Normalize ==
  /\ pc = "tekst_norm"
  /\ tekst_norm' = normalize_text(tekst)
  /\ calls' = Append(calls, "normalize_text")
  /\ pc' = "eclis"
  /\ UNCHANGED <<parts, tekst, eclis, blocks, topk, ranked, picked>>
  /\ UNCHANGED respVars
  /\ UNCHANGED sideVars

ExtractEclis ==
  /\ pc = "eclis"
  /\ eclis' = extract_eclis(tekst_norm)
  /\ calls' = Append(calls, "extract_eclis")
  /\ pc' = "blocks"
  /\ UNCHANGED <<parts, tekst, tekst_norm, blocks, topk, ranked, picked>>
  /\ UNCHANGED respVars
  /\ UNCHANGED sideVars

Segment ==
  /\ pc = "blocks"
  /\ blocks' = segment_rechtsoverwegingen(tekst_norm)
  /\ calls' = Append(calls, "segment_rechtsoverwegingen")
  /\ pc' = "top_blocks"
  /\ UNCHANGED <<parts, tekst, tekst_norm, eclis, topk, ranked, picked>>
  /\ UNCHANGED respVars
  /\ UNCHANGED sideVars

\* top_blocks = rank_ro_blocks(..., topk=max_ro_in_prompt) if blocks; the
\* caller's max_ro_in_prompt is drawn here, where it is first read
RankTopBlocks ==
  /\ pc = "top_blocks"
  /\ blocks # <<>>
  /\ \E k \in RankTopKs :
       /\ topk' = k
       /\ LET top == RankTop(blocks, tekst_norm, k)
          IN  ranked' = TopPairs(top) /\ picked' = TopSources(top)
  /\ calls' = Append(calls, "rank_ro_blocks")
  /\ pc' = "call_llm"
  /\ UNCHANGED <<parts, tekst, tekst_norm, eclis, blocks>>
  /\ UNCHANGED respVars
  /\ UNCHANGED sideVars

\* top_blocks = [] otherwise
NoTopBlocks ==
  /\ pc = "top_blocks"
  /\ blocks = <<>>
  /\ ranked' = <<>>
  /\ picked' = <<>>
  /\ pc' = "call_llm"
  /\ UNCHANGED <<parts, tekst, tekst_norm, eclis, blocks, topk, calls>>
  /\ UNCHANGED respVars
  /\ UNCHANGED sideVars

Preprocess == Normalize \/ ExtractEclis \/ Segment \/ RankTopBlocks \/ NoTopBlocks

InitPrep ==
  /\ pc = "tekst_norm"
  /\ parts \in SeqsUpTo(Paras, MaxParas)
  /\ tekst = CatTexts(parts)
  /\ tekst_norm = <<>>
  /\ eclis = <<>>
  /\ blocks = <<>>
  /\ topk = TOPK_RO
  /\ ranked = <<>>
  /\ picked = <<>>
  /\ calls = <<>>
  /\ NoResponse
  /\ NoSide

SpecPrep == InitPrep /\ [][Preprocess]_vars

\* the first two steps on documents that cite cases
InitEcli ==
  /\ pc = "tekst_norm"
  /\ parts \in SeqsUpTo(Citations, MaxEclis)
  /\ tekst = CatTexts(parts)
  /\ tekst_norm = <<>>
  /\ eclis = <<>>
  /\ blocks = <<>>
  /\ topk = TOPK_RO
  /\ ranked = <<>>
  /\ picked = <<>>
  /\ calls = <<>>
  /\ NoResponse
  /\ NoSide

SpecEcli == InitEcli /\ [][Normalize \/ ExtractEclis]_vars

(***************************************************************************)
(* segment_rechtsoverwegingen called on its own, as testrun.py does, in    *)
(* its three steps: lines 129, 130 and 131-141                             *)
(***************************************************************************)
\* t = normalize_text(text)
SegNormalize ==
  /\ pc = "seg_t"
  /\ tekst_norm' = normalize_text(tekst)
  /\ calls' = Append(calls, "normalize_text")
  /\ pc' = "seg_headers"
  /\ UNCHANGED <<parts, tekst, eclis, blocks, topk, ranked, picked, headers, score, runs, norm_t>>
  /\ UNCHANGED respVars

\* headers = _collect_headers(t)
SegHeaders ==
  /\ pc = "seg_headers"
  /\ headers' = _collect_headers(tekst_norm)
  /\ calls' = Append(calls, "_collect_headers")
  /\ pc' = "seg_blocks"
  /\ UNCHANGED <<parts, tekst, tekst_norm, eclis, blocks, topk, ranked, picked, score, runs, norm_t>>
  /\ UNCHANGED respVars

\* the loop over the headers (none: the empty list) and the return
SegBlocks ==
  /\ pc = "seg_blocks"
  /\ blocks' = SegmentLoop(tekst_norm, headers, 1)
  /\ pc' = "segmented"
  /\ UNCHANGED <<parts, tekst, tekst_norm, eclis, topk, ranked, picked, headers, score,
                 runs, norm_t, calls>>
  /\ UNCHANGED respVars

SegmentSteps == SegNormalize \/ SegHeaders \/ SegBlocks

InitSeg ==
  /\ pc = "seg_t"
  /\ parts \in SeqsUpTo(SegParas, MaxSegParas)
  /\ tekst = CatTexts(parts)
  /\ tekst_norm = <<>>
  /\ eclis = <<>>
  /\ blocks = <<>>
  /\ topk = TOPK_RO
  /\ ranked = <<>>
  /\ picked = <<>>
  /\ calls = <<>>
  /\ NoResponse
  /\ NoSide

SpecSeg == InitSeg /\ [][SegmentSteps]_vars

(***************************************************************************)
(* segment_rechtsoverwegingen on paragraphs whose content starts with      *)
(* punctuation, with the header's number again, or with another number     *)
(***************************************************************************)
P_colon    == Str(<<":"," ","h","o","f">>)
P_only     == Str(<<":">>)
P_again    == Str(<<"3","."," ","3"," ","h","o","f">>)
P_dash     == Str(<<"EMDASH"," ","3"," ","h","o","f">>)
P_euro     == Str(<<"3","5"," ","e","u","r","o">>)
P_sub      == Str(<<"3",".","1"," ","h","o","f">>)
P_other    == Str(<<"4"," ","h","o","f">>)
P_parent   == Str(<<"3"," ","h","o","f">>)

\* "r.o. 3" paragraphs with each of these contents, and an "r.o. 3.1"
\* paragraph that starts with the number 3
CleanParas ==
  { Para("ro", N3, P_hof), Para("ro", N3, P_colon), Para("ro", N3, P_only),
    Para("ro", N3, P_again), Para("ro", N3, P_dash), Para("ro", N3, P_euro),
    Para("ro", N3, P_sub), Para("ro", N3, P_other), Para("ro", N31, P_parent) }

\* most paragraphs of such a document
MaxCleanParas == 3

InitClean ==
  /\ pc = "seg_t"
  /\ parts \in SeqsUpTo(CleanParas, MaxCleanParas)
  /\ tekst = CatTexts(parts)
  /\ tekst_norm = <<>>
  /\ eclis = <<>>
  /\ blocks = <<>>
  /\ topk = TOPK_RO
  /\ ranked = <<>>
  /\ picked = <<>>
  /\ calls = <<>>
  /\ NoResponse
  /\ NoSide

SpecClean == InitClean /\ [][SegmentSteps]_vars

(***************************************************************************)
(* normalize_text as summarize_case_irac (line 413) and then               *)
(* segment_rechtsoverwegingen (line 129) apply it: the second time to the  *)
(* result of the first                                                     *)
(***************************************************************************)
RECURSIVE CatPieces(_)
\* the pieces of a text, one after the other
CatPieces(ps) == IF ps = <<>> THEN <<>> ELSE Head(ps) \o CatPieces(Tail(ps))

\* the pieces raw texts are put together from: a word, a header, blanks,
\* line breaks of each kind, three blank lines, a curly quote
NormPieces ==
  { Str(<<"a">>), Str(<<"r",".","o","."," ","3"," ">>), Str(<<" ">>), Str(<<"\n">>),
    Str(<<"\n","\n","\n","\n">>), Str(<<"\r","\n">>), Str(<<"\r">>), Str(<<"\t">>),
    Str(<<"NBSP">>), Str(<<"LDQ">>) }

\* most pieces of a raw text
MaxPieces == 4

NormalizeFirst ==
  /\ pc = "normalize_text"
  /\ tekst_norm' = normalize_text(tekst)
  /\ pc' = "segment"
  /\ UNCHANGED <<parts, tekst, eclis, blocks, topk, ranked, picked, calls, headers, score,
                 runs, norm_t>>
  /\ UNCHANGED respVars

NormalizeAgain ==
  /\ pc = "segment"
  /\ norm_t' = normalize_text(tekst_norm)
  /\ pc' = "normalized"
  /\ UNCHANGED <<parts, tekst, tekst_norm, eclis, blocks, topk, ranked, picked, calls,
                 headers, score, runs>>
  /\ UNCHANGED respVars

NormalizeTwice == NormalizeFirst \/ NormalizeAgain

InitNorm ==
  /\ pc = "normalize_text"
  /\ parts \in SeqsUpTo(NormPieces, MaxPieces)
  /\ tekst = CatPieces(parts)
  /\ tekst_norm = <<>>
  /\ eclis = <<>>
  /\ blocks = <<>>
  /\ topk = TOPK_RO
  /\ ranked = <<>>
  /\ picked = <<>>
  /\ calls = <<>>
  /\ NoResponse
  /\ NoSide

SpecNorm == InitNorm /\ [][NormalizeTwice]_vars

(***************************************************************************)
(* Handling one response: lines 320-324 of call_llm_irac_with_ranking      *)
(***************************************************************************)
\* raise LLMError(f"JSON schema-validatie faalde: {ve.message}")
SchemaError ==
  [type |-> "LLMError", message |-> <<"JSON schema-validatie faalde: ", "ve.message">>]

\* _validate_irac(data): raises LLMError or returns, leaving data as it is
Validate ==
  /\ pc = "validate"
  /\ pc' = IF _validate_irac(data) THEN "min_roles" ELSE "failed"
  /\ exc' = IF _validate_irac(data) THEN exc ELSE SchemaError
  /\ outcomes' = IF _validate_irac(data) THEN outcomes ELSE Append(outcomes, "schema")
  /\ calls' = Append(calls, "_validate_irac")
  /\ UNCHANGED <<resp, defect, data, ranked, order, attempt, max_retries, last_err>>
  /\ UNCHANGED sleepVars
  /\ UNCHANGED prepVars

\* _enforce_min_roles(data)
EnforceMinRoles ==
  /\ pc = "min_roles"
  /\ \E o \in Orders(NeededRoles(data)) :
       /\ order' = o
       /\ data' = _enforce_min_roles(data, o)
  /\ calls' = Append(calls, "_enforce_min_roles")
  /\ pc' = "deny"
  /\ UNCHANGED <<resp, defect, ranked>>
  /\ UNCHANGED callVars
  /\ UNCHANGED prepVars

\* _deny_unknown_ro_nums(data, [n for n, _ in ranked_blocks]); return data
DenyUnknownRoNums ==
  /\ pc = "deny"
  /\ data' = _deny_unknown_ro_nums(data, CandidateNums(ranked))
  /\ calls' = Append(calls, "_deny_unknown_ro_nums")
  /\ outcomes' = Append(outcomes, "ok")
  /\ pc' = "returned"
  /\ UNCHANGED <<resp, defect, ranked, order, attempt, max_retries, exc, last_err>>
  /\ UNCHANGED sleepVars
  /\ UNCHANGED prepVars

HandleResponse == Validate \/ EnforceMinRoles \/ DenyUnknownRoNums

\* the guardrail on responses that are schema-valid, or carry a defect
InitGuard ==
  /\ pc = "validate"
  /\ \E base \in GuardResponses :
       \E d \in {NoDefect, [kind |-> "badenum", key |-> "rol", idx |-> Len(Ros(base))]} :
         /\ d.idx = 0 => d = NoDefect
         /\ defect = d
         /\ resp = ApplyDefect(d, base)
  /\ data = resp
  /\ ranked \in GuardCandidates
  /\ order = <<>>
  /\ calls = <<>>
  /\ NoCall
  /\ NoDocument

SpecGuard == InitGuard /\ [][HandleResponse]_vars

\* the validator on every defect of every sample response
InitValidate ==
  /\ pc = "validate"
  /\ \E base \in ValidatorBases :
       \E d \in DefectsOf(base) :
         /\ defect = d
         /\ resp = ApplyDefect(d, base)
  /\ data = resp
  /\ ranked = << <<N31, T_geen>> >>
  /\ order = <<>>
  /\ calls = <<>>
  /\ NoCall
  /\ NoDocument

SpecValidate == InitValidate /\ [][HandleResponse]_vars

(***************************************************************************)
(* _enforce_min_roles, lines 224-232, one iteration of its loop at a time. *)
(* `order` is list(needed); `picked` holds the idx returned by             *)
(* _pick_best_for_role in each iteration done so far (0 for None).         *)
(***************************************************************************)
\* two Application keywords, no other
T_casu == Str(<<"h","e","t"," ","h","o","f"," ","p","a","s","t"," ","t","o","e">>)

RoleTexts == RoTexts \cup { <<T_casu, <<>> >> }

\* schema-valid responses of up to MaxRos blocks with any roles and texts
RoleResponses ==
  {IracObj(ros) :
     ros \in SeqsUpTo({RoObj(N31, r, tq[1], tq[2]) : r \in ROL_ENUM, tq \in RoleTexts},
                      MaxRos)}

\* roles, needed, `if not needed: return`, list(needed)
ListNeeded ==
  /\ pc = "min_roles"
  /\ \E o \in Orders(NeededRoles(data)) :
       /\ order' = o
       /\ pc' = IF o = <<>> THEN "enforced" ELSE "for_want"
  /\ UNCHANGED <<parts, tekst, tekst_norm, eclis, blocks, topk, ranked, picked, calls,
                 resp, defect, data>>
  /\ UNCHANGED callVars
  /\ UNCHANGED sideVars

\* one iteration of `for want in list(needed)`
ForWant ==
  /\ pc = "for_want"
  /\ LET want == order[Len(picked) + 1] IN
       /\ picked' = Append(picked, _pick_best_for_role(Ros(data), want))
       /\ data' = EnforceOne(data, want)
  /\ pc' = IF Len(picked) + 1 = Len(order) THEN "enforced" ELSE "for_want"
  /\ UNCHANGED <<parts, tekst, tekst_norm, eclis, blocks, topk, ranked, calls,
                 resp, defect, order>>
  /\ UNCHANGED callVars
  /\ UNCHANGED sideVars

EnforceSteps == ListNeeded \/ ForWant

InitRoles ==
  /\ pc = "min_roles"
  /\ resp \in RoleResponses
  /\ data = resp
  /\ defect = NoDefect
  /\ order = <<>>
  /\ ranked = <<>>
  /\ calls = <<>>
  /\ NoCall
  /\ NoDocument

SpecRoles == InitRoles /\ [][EnforceSteps]_vars

(***************************************************************************)
(* call_llm_irac_with_ranking, lines 288-333, and the rest of              *)
(* summarize_case_irac, lines 417-429.  A sleep is recorded by its         *)
(* argument; time itself does not pass in the model.                       *)
(***************************************************************************)
\* the exceptions an attempt can end with before validation: the call times
\* out, the call fails on a transient fault, json.loads refuses the content
ExternalFailures ==
  [ timeout   |-> [type |-> "APITimeoutError", message |-> <<"Request timed out.">>],
    transient |-> [type |-> "APIConnectionError", message |-> <<"Connection error.">>],
    notjson   |-> [type |-> "JSONDecodeError", message |-> <<"Expecting value">>] ]

\* raise LLMError(f"LLM-call faalde: {e}")
CallFailed(e) == [type |-> "LLMError", message |-> <<"LLM-call faalde: ">> \o e.message]

\* raise LLMError(f"Onbekende fout: {last_err}")
UnknownFailure(e) == [type |-> "LLMError", message |-> <<"Onbekende fout: ">> \o e.message]

\* lines 293-320 of one attempt: client.chat.completions.create (made again
\* without response_format when the SDK refuses that argument) and
\* json.loads(content); either an exception or the parsed data
CreateFrom(failures, responses) ==
  /\ pc = "create"
  /\ attempt <= max_retries
  /\ \/ \E k \in failures :
          /\ exc' = ExternalFailures[k]
          /\ outcomes' = Append(outcomes, k)
          /\ pc' = "failed"
          /\ UNCHANGED <<resp, defect, data>>
     \/ \E r \in responses, d \in {NoDefect, CallDefect} :
          /\ defect' = d
          /\ resp' = ApplyDefect(d, r)
          /\ data' = resp'
          /\ pc' = "validate"
          /\ UNCHANGED <<exc, outcomes>>
  /\ calls' = Append(calls, "create")
  /\ UNCHANGED <<ranked, order, attempt, max_retries, last_err>>
  /\ UNCHANGED sleepVars
  /\ UNCHANGED prepVars

Create == CreateFrom(DOMAIN ExternalFailures, CallResponses)

\* random.uniform(0, 0.75), in hundredths: the two ends of the interval
Jitters == {0, 75}

\* a sleep without the limit of 20 seconds
SleepUncapped(b, jitter) == b + jitter

\* min(20.0, backoff + random.uniform(0, 0.75)), in hundredths
SleepTime(b, jitter) == Min(2000, b + jitter)

\* except Exception as e: lines 326-331
Except ==
  /\ pc = "failed"
  /\ last_err' = exc
  /\ IF attempt = max_retries
     THEN /\ exc' = CallFailed(exc)
          /\ pc' = "raised"
          /\ UNCHANGED <<attempt, backoff, slept>>
     ELSE /\ \E jitter \in Jitters : slept' = Append(slept, SleepTime(backoff, jitter))
          /\ backoff' = 2 * backoff
          /\ attempt' = attempt + 1
          /\ pc' = "create"
          /\ UNCHANGED exc
  /\ UNCHANGED <<resp, defect, data, ranked, order, max_retries, outcomes, calls>>
  /\ UNCHANGED prepVars

\* line 333: the loop ended without an attempt
NoAttempt ==
  /\ pc = "create"
  /\ attempt > max_retries
  /\ exc' = UnknownFailure(last_err)
  /\ pc' = "raised"
  /\ UNCHANGED <<resp, defect, data, ranked, order, attempt, max_retries, last_err,
                 outcomes, calls>>
  /\ UNCHANGED sleepVars
  /\ UNCHANGED prepVars

\* the sources of the response with the extracted identifiers put first
EclisFirst(bronnen, ids) == FromKeys(ids \o bronnen, {})

\* list(dict.fromkeys(data.get("Bronnen", []) + eclis))
MergedBronnen(bronnen, ids) == FromKeys(bronnen \o ids, {})

\* the strings of eclis as they stand in data
EclisInData(ids) == [i \in 1..Len(ids) |-> JString(ids[i])]

\* lines 427-429 of summarize_case_irac
MergeBronnen ==
  /\ pc = "returned"
  /\ data' = WithBronnen(data, MergedBronnen(data.v.Bronnen.v, EclisInData(eclis)))
  /\ pc' = "done"
  /\ UNCHANGED <<resp, defect, ranked, order, calls>>
  /\ UNCHANGED callVars
  /\ UNCHANGED prepVars

CallLlm == Create \/ Except \/ NoAttempt \/ HandleResponse \/ MergeBronnen

InitCall ==
  /\ pc = "create"
  /\ attempt = 1
  /\ max_retries \in 0..MaxRetries
  /\ exc = NoExc
  /\ last_err = NoExc
  /\ outcomes = <<>>
  /\ backoff = 200
  /\ slept = <<>>
  /\ defect = NoDefect
  /\ resp = IracObj(<<>>)
  /\ data = resp
  /\ order = <<>>
  /\ ranked = << <<N31, T_geen>> >>
  /\ calls = <<>>
  /\ parts = <<>>
  /\ tekst = <<>>
  /\ tekst_norm = <<>>
  /\ eclis \in CallEclis
  /\ blocks = <<>>
  /\ topk = TOPK_RO
  /\ picked = <<>>
  /\ NoSide

SpecCall == InitCall /\ [][CallLlm]_vars

(***************************************************************************)
(* The retry loop of call_llm_irac_with_ranking over more attempts, the    *)
(* collaborator timing out or answering one response, valid or not.        *)
(***************************************************************************)
\* most attempts allowed
MaxAttempts == 6

RetryCreate ==
  CreateFrom({"timeout"}, {IracObj(<<RoObj(N31, RULE, T_maatstaf, T_uit)>>)})

RetryLoop == RetryCreate \/ Except \/ NoAttempt \/ HandleResponse

InitRetry ==
  /\ pc = "create"
  /\ max_retries \in (-1)..MaxAttempts
  /\ ranked = << <<N31, T_geen>> >>
  /\ calls = <<>>
  /\ attempt = 1
  /\ exc = NoExc
  /\ last_err = NoExc
  /\ outcomes = <<>>
  /\ backoff = 200
  /\ slept = <<>>
  /\ defect = NoDefect
  /\ resp = IracObj(<<>>)
  /\ data = resp
  /\ order = <<>>
  /\ NoDocument

SpecRetry == InitRetry /\ [][RetryLoop]_vars

\* every call of the collaborator ends (line 304: timeout=timeout_s), every
\* sleep ends, and the other steps are finite computations
SpecRetryFair == SpecRetry /\ WF_vars(RetryLoop)

(***************************************************************************)
(* Two runs of the pipeline interleaved stage by stage.  Each run has its  *)
(* own local variables; the module-level names the stages read (patterns,  *)
(* KEYWORDS_STRONG, IRAC_SCHEMA, RO_MAX_CHARS, TOPK_RO) are assigned once  *)
(* at import and by no stage, and are the constants of this module.  The   *)
(* external call is not a stage: its reply is an input of the run.         *)
(***************************************************************************)
Runs == {1, 2}

\* the documents and the replies of the two runs
PairDocs ==
  { CatTexts(<<Para("ro", N3, P_kort), Para("ro", N31, P_lang)>>),
    CatTexts(<<Para("ro", N33, P_lang)>>) }

PairReplies ==
  { IracObj(<<RoObj(N31, RULE, T_maatstaf, T_uit)>>),
    IracObj(<<RoObj(N33, OVERIG, T_hof, <<>>)>>),
    ApplyDefect(CallDefect, IracObj(<<>>)) }

\* the local variables of a run that has not started
NewRun(doc, reply) ==
  [pc |-> "tekst_norm", tekst |-> doc, resp |-> reply, tekst_norm |-> <<>>,
   eclis |-> <<>>, t |-> <<>>, headers |-> <<>>, blocks |-> <<>>,
   top_blocks |-> <<>>, data |-> reply, order |-> <<>>]

\* the local variables of another run
FirstRun(rs, r) == rs[1]

\* the local variables of run r
RunOf(rs, r) == rs[r]

soloVars == <<pc, parts, tekst, tekst_norm, eclis, blocks, topk, ranked, picked,
              calls, headers, score, norm_t>>

\* run r assigns its local variables; nothing else is written
Continue(r, assigned) ==
  /\ runs' = [runs EXCEPT ![r] = [f \in DOMAIN runs[r] |->
                                    IF f \in DOMAIN assigned THEN assigned[f]
                                    ELSE runs[r][f]]]
  /\ UNCHANGED soloVars
  /\ UNCHANGED respVars

\* tekst_norm = normalize_text(tekst)
PairNormalize(r) ==
  LET run == RunOf(runs, r) IN
  /\ run.pc = "tekst_norm"
  /\ Continue(r, [tekst_norm |-> normalize_text(run.tekst), pc |-> "eclis"])

\* eclis = extract_eclis(tekst_norm)
PairExtractEclis(r) ==
  LET run == RunOf(runs, r) IN
  /\ run.pc = "eclis"
  /\ Continue(r, [eclis |-> extract_eclis(run.tekst_norm), pc |-> "headers"])

\* segment_rechtsoverwegingen, lines 129-130: t, headers
PairHeaders(r) ==
  LET run == RunOf(runs, r) IN
  /\ run.pc = "headers"
  /\ \E t \in {normalize_text(run.tekst_norm)} :
       Continue(r, [t |-> t, headers |-> _collect_headers(t), pc |-> "blocks"])

\* segment_rechtsoverwegingen, lines 131-141: blocks
PairSegment(r) ==
  LET run == RunOf(runs, r) IN
  /\ run.pc = "blocks"
  /\ Continue(r, [blocks |-> SegmentLoop(run.t, run.headers, 1), pc |-> "top_blocks"])

\* top_blocks = rank_ro_blocks(...) if blocks else []; then the reply of the
\* collaborator is at hand
PairRank(r) ==
  LET run == RunOf(runs, r) IN
  /\ run.pc = "top_blocks"
  /\ Continue(r, [top_blocks |-> IF run.blocks # <<>>
                                  THEN rank_ro_blocks(run.blocks, run.tekst_norm, TOPK_RO)
                                  ELSE <<>>,
                   pc |-> "validate"])

\* _validate_irac(data)
PairValidate(r) ==
  LET run == RunOf(runs, r) IN
  /\ run.pc = "validate"
  /\ Continue(r, [pc |-> IF _validate_irac(run.data) THEN "min_roles" ELSE "failed"])

\* _enforce_min_roles(data)
PairEnforceMinRoles(r) ==
  LET run == RunOf(runs, r) IN
  /\ run.pc = "min_roles"
  /\ \E o \in Orders(NeededRoles(run.data)) :
       Continue(r, [order |-> o, data |-> _enforce_min_roles(run.data, o), pc |-> "deny"])

\* _deny_unknown_ro_nums(data, [n for n, _ in ranked_blocks])
PairDenyUnknownRoNums(r) ==
  LET run == RunOf(runs, r) IN
  /\ run.pc = "deny"
  /\ Continue(r, [data |-> _deny_unknown_ro_nums(run.data, CandidateNums(run.top_blocks)),
                   pc |-> "returned"])

Stage(r) ==
  \/ PairNormalize(r) \/ PairExtractEclis(r) \/ PairHeaders(r) \/ PairSegment(r)
  \/ PairRank(r) \/ PairValidate(r) \/ PairEnforceMinRoles(r)
  \/ PairDenyUnknownRoNums(r)

Interleaved == \E r \in Runs : Stage(r)

InitPair ==
  /\ pc = "interleaved"
  /\ runs \in [Runs -> {NewRun(d, a) : d \in PairDocs, a \in PairReplies}]
  /\ parts = <<>>
  /\ tekst = <<>>
  /\ tekst_norm = <<>>
  /\ eclis = <<>>
  /\ blocks = <<>>
  /\ topk = TOPK_RO
  /\ ranked = <<>>
  /\ picked = <<>>
  /\ calls = <<>>
  /\ headers = <<>>
  /\ score = 0
  /\ norm_t = <<>>
  /\ NoResponse

SpecPair == InitPair /\ [][Interleaved]_vars


(***************************************************************************)
(* Claims about the guardrail and the validator                            *)
(***************************************************************************)
SubstantiveRoles == {RULE, APPLICATION, CONCLUSION}

AllowedNums == SeqToSet(CandidateNums(ranked))

\* C1: in every result returned after _enforce_min_roles and
\* _deny_unknown_ro_nums, whatever the size of the candidate set, a block
\* whose rol is Rule, Application or Conclusion has an ro_nummer among the
\* offered candidates (a block with any other ro_nummer has rol Overig).
C1_GuardrailProperty ==
  pc = "returned" =>
    \A i \in 1..Len(Ros(data)) :
      Rol(Ros(data)[i]) \in SubstantiveRoles => RoNummer(Ros(data)[i]) \in AllowedNums

\* the Overig blocks of d that score > 0 against role r
ScoringOverig(d, r) ==
  {i \in 1..Len(Ros(d)) : Rol(Ros(d)[i]) = OVERIG /\ RoleScore(Ros(d)[i], r) > 0}

HasRole(d, r) == \E i \in 1..Len(Ros(d)) : Rol(Ros(d)[i]) = r

\* C2 as stated: for each role missing from the validated blocks, if some
\* Overig block scores > 0 against it, the returned result (after both
\* guardrail passes) holds a block with that role.
C2_MinimumRoleOriginal ==
  pc = "returned" =>
    \A r \in NeededRoles(resp) : ScoringOverig(resp, r) # {} => HasRole(data, r)

\* the first of the highest-scoring blocks of a non-empty set of blocks of d
FirstBest(d, r, cand) ==
  CHOOSE i \in cand :
    \A j \in cand :
      \/ RoleScore(Ros(d)[j], r) < RoleScore(Ros(d)[i], r)
      \/ RoleScore(Ros(d)[j], r) = RoleScore(Ros(d)[i], r) /\ i <= j

\* C2 amended: for each missing role, in the order the roles are walked: if
\* at its turn some block still labelled Overig scores > 0 against it, the
\* first highest-scoring such block carries that role in the returned result,
\* provided its ro_nummer is among the offered candidates or no candidate was
\* offered (otherwise the anti-hallucination guard demotes it again).
C2_MinimumRoleAmended ==
  pc = "returned" =>
    \A k \in 1..Len(order) :
      LET before == _enforce_min_roles(resp, SubSeq(order, 1, k - 1))
          cand   == ScoringOverig(before, order[k])
      IN  cand # {} =>
            LET best == FirstBest(before, order[k], cand)
            IN  (AllowedNums = {} \/ RoNummer(Ros(resp)[best]) \in AllowedNums)
                  => Rol(Ros(data)[best]) = order[k]

\* a returned result in which a missing role was filled by promoting an
\* Overig block that the guard then left alone
C2_Witness ==
  /\ pc = "returned"
  /\ AllowedNums # {}
  /\ \E i \in 1..Len(Ros(resp)) :
       /\ Rol(Ros(resp)[i]) = OVERIG
       /\ Rol(Ros(data)[i]) \in NeededRoles(resp)
       /\ \E j \in 1..Len(Ros(resp)) :
            j # i /\ Rol(Ros(resp)[j]) = OVERIG /\ Rol(Ros(data)[j]) = OVERIG

\* C10: _validate_irac raises for every structure with a missing required
\* field, an extra field, a value of the wrong type or a rol outside the
\* enumeration, accepts every structure without such a defect, and leaves the
\* structure it checks as it was.
C10_StrictValidation ==
  pc \in {"min_roles", "failed"} =>
    /\ (pc = "failed") <=> (defect # NoDefect)
    /\ data = resp

\* a response rejected for an extra field inside a block
C10_Witness ==
  pc = "failed" /\ defect.kind = "extra" /\ defect.idx > 0

(***************************************************************************)
(* Claims about rank_ro_blocks                                             *)
(***************************************************************************)
\* C3: for every list of blocks and every topk handed to rank_ro_blocks, the
\* returned candidate list has at most topk elements.
C3_SizeBound == pc = "ranked" => Len(ranked) <= topk

\* number c is a strict dot-prefixed extension of number p
IsExtension(c, p) ==
  /\ Len(c) > Len(p) + 1
  /\ SubSeq(c, 1, Len(p)) = p
  /\ c[Len(p) + 1] = <<".", 1>>

\* block i has a child block and fewer than 220 characters of content
IsShortParent(i) ==
  /\ \E j \in 1..Len(blocks) : IsExtension(blocks[j][1], blocks[i][1])
  /\ CharLen(blocks[i][2]) < 220

BlockNums == SeqToSet(AllNums(blocks))

\* a document with a terse r.o. 3 (and no long one), an r.o. 3.1 and an
\* r.o. 3.3
TerseParentText ==
  /\ \E i \in 1..Len(parts) : parts[i] = Para("ro", N3, P_kort)
  /\ \A i \in 1..Len(parts) : parts[i] # Para("ro", N3, P_lang)
  /\ \E i \in 1..Len(parts) : parts[i].head = "ro" /\ parts[i].num = N31
  /\ \E i \in 1..Len(parts) : parts[i].head = "ro" /\ parts[i].num = N33

\* C4: no candidate handed to the collaborator is made from a block that has
\* a child block and fewer than 220 characters; for a document with a terse
\* r.o. 3, an r.o. 3.1 and an r.o. 3.3 (and room for two candidates) the
\* blocks include 3 while the candidates include 3.1 and 3.3 and not 3.
C4_ShortParentExclusion ==
  pc = "call_llm" =>
    /\ Len(picked) = Len(ranked)
    /\ \A k \in 1..Len(ranked) :
         /\ ranked[k][1] = blocks[picked[k]][1]
         /\ ~IsShortParent(picked[k])
    /\ (TerseParentText /\ topk >= 2) =>
         /\ N3 \in BlockNums
         /\ {N31, N33} \subseteq AllowedNums
         /\ N3 \notin AllowedNums

\* the terse r.o. 3 was segmented and left out of the candidates
C4_Witness ==
  /\ pc = "call_llm"
  /\ TerseParentText
  /\ topk >= 2
  /\ N3 \in BlockNums
  /\ Len(ranked) = 2

\* the score of block i, as rank_ro_blocks computes it for this document
BlockScore(i) == score_block(blocks[i][1], blocks[i][2], extract_eclis(tekst) # <<>>)

\* block i sorts before block j: higher score, then longer, then smaller
\* number, then earlier in the input
SortsBefore(i, j) ==
  LET si == BlockScore(i)
      sj == BlockScore(j)
      li == CharLen(blocks[i][2])
      lj == CharLen(blocks[j][2])
  IN  \/ si > sj
      \/ si = sj /\ li > lj
      \/ si = sj /\ li = lj /\ StrLess(blocks[i][1], blocks[j][1])
      \/ si = sj /\ li = lj /\ blocks[i][1] = blocks[j][1] /\ i < j

PickedSet == SeqToSet(picked)

\* C7: the candidate list is a function of the blocks, the document and topk:
\* the candidates are made from blocks that pass the filter, each is the
\* number and clamped text of its block, they stand in the order of score,
\* length, number and input position and have distinct numbers, and a block
\* that passes the filter is left out only for a block of the same number
\* that sorts before it or because topk candidates sort before it.  Blocks
\* that tie on score, length and number are thus taken in input order.
C7_RankingDeterminism ==
  pc = "ranked" =>
    /\ Len(picked) = Len(ranked)
    /\ \A k \in 1..Len(ranked) :
         /\ picked[k] \in 1..Len(blocks)
         /\ ~IsShortParent(picked[k])
         /\ ranked[k] = <<blocks[picked[k]][1],
                          clamp(Strip(blocks[picked[k]][2]), RO_MAX_CHARS)>>
    /\ \A k, l \in 1..Len(ranked) :
         k < l => /\ SortsBefore(picked[k], picked[l])
                  /\ ranked[k][1] # ranked[l][1]
    /\ \A i \in 1..Len(blocks) :
         (~IsShortParent(i) /\ i \notin PickedSet) =>
           \/ \E k \in 1..Len(picked) :
                blocks[picked[k]][1] = blocks[i][1] /\ SortsBefore(picked[k], i)
           \/ Len(picked) >= topk /\ SortsBefore(picked[Len(picked)], i)

\* two blocks that tie on score, length and number and differ in text: the
\* one given first is the candidate
C7_Witness ==
  /\ pc = "ranked"
  /\ \E i, j \in 1..Len(blocks) :
       /\ i < j
       /\ blocks[i][1] = blocks[j][1]
       /\ blocks[i][2] # blocks[j][2]
       /\ BlockScore(i) = BlockScore(j)
       /\ CharLen(blocks[i][2]) = CharLen(blocks[j][2])
       /\ i \in PickedSet

\* the number of legal-keyword terms block i matches
KeywordTerms(i) ==
  Cardinality({k \in 1..Len(KEYWORDS_STRONG) :
                 Contains(KEYWORDS_STRONG[k],
                          LowerText(blocks[i][1] \o Str(<<" ">>) \o blocks[i][2]))})

\* the signals of block i other than keywords, depth and the document's ECLI:
\* article citation, EVRM and length
OtherSignals(i) ==
  BlockScore(i) - 20 * KeywordTerms(i) - Min(9, 3 * CountDots(blocks[i][1]))

\* the position of block i among the candidates, 0 if it is none
PositionOf(i) ==
  IF i \in PickedSet THEN CHOOSE k \in 1..Len(picked) : picked[k] = i ELSE 0

\* p and c are a parent and a child that pass the filter (each the only block
\* of its number) and c matches more keyword terms
RicherChild(p, c) ==
  /\ IsExtension(blocks[c][1], blocks[p][1])
  /\ ~IsShortParent(p) /\ ~IsShortParent(c)
  /\ \A j \in 1..Len(blocks) : j \notin {p, c} => blocks[j][1] \notin {blocks[p][1], blocks[c][1]}
  /\ KeywordTerms(c) > KeywordTerms(p)

\* c stands before p among the candidates whenever p is a candidate
ChildFirst(p, c) ==
  PositionOf(p) # 0 => (PositionOf(c) # 0 /\ PositionOf(c) < PositionOf(p))

\* C8 as stated: a child that passes the filter with its parent and matches
\* strictly more keyword terms is ordered before the parent, whatever the
\* lengths and other signals of the two blocks.
C8_DepthBonusOriginal ==
  pc = "ranked" =>
    \A p, c \in 1..Len(blocks) : RicherChild(p, c) => ChildFirst(p, c)

\* C8 amended: such a child is ordered before its parent provided its other
\* signals (article citation, EVRM, length) together are not below the
\* parent's.
C8_DepthBonusAmended ==
  pc = "ranked" =>
    \A p, c \in 1..Len(blocks) :
      (RicherChild(p, c) /\ OtherSignals(c) >= OtherSignals(p)) => ChildFirst(p, c)

\* a richer child given after its parent and returned before it
C8_Witness ==
  /\ pc = "ranked"
  /\ \E p, c \in 1..Len(blocks) :
       /\ RicherChild(p, c)
       /\ OtherSignals(c) >= OtherSignals(p)
       /\ p < c
       /\ PositionOf(p) # 0
       /\ PositionOf(c) # 0

\* the value of a decimal digit
DigitValue(c) == CHOOSE d \in 0..9 : DIGITS[d + 1] = c

RECURSIVE PathFrom(_, _, _)
\* the numbering path of num[i..] as a sequence of integers, acc being the
\* value of the digits read since the last dot
PathFrom(num, i, acc) ==
  IF i > Len(num) THEN <<acc>>
  ELSE IF num[i][1] = "." THEN <<acc>> \o PathFrom(num, i + 1, 0)
  ELSE PathFrom(num, i + 1, 10 * acc + DigitValue(num[i][1]))

IntPath(num) == PathFrom(num, 1, 0)

RECURSIVE PathLess(_, _)
\* p < q for sequences of integers, compared item by item
PathLess(p, q) ==
  IF q = <<>> THEN FALSE
  ELSE IF p = <<>> THEN TRUE
  ELSE IF p[1] # q[1] THEN p[1] < q[1]
  ELSE PathLess(Tail(p), Tail(q))

\* block i sorts strictly before block j by score descending, then length
\* descending, then numbering path ascending as integers
NumericBefore(i, j) ==
  LET si == BlockScore(i)
      sj == BlockScore(j)
      li == CharLen(blocks[i][2])
      lj == CharLen(blocks[j][2])
  IN  \/ si > sj
      \/ si = sj /\ li > lj
      \/ si = sj /\ li = lj /\ PathLess(IntPath(blocks[i][1]), IntPath(blocks[j][1]))

\* C17: the candidates stand in the order of score descending, then content
\* length descending, then numbering path ascending with paths compared as
\* sequences of integers (9 before 10, 3.2 before 3.10), with distinct
\* numbers: no candidate sorts strictly before one that precedes it.
C17_SelectionOrder ==
  pc = "ranked" =>
    \A k, l \in 1..Len(picked) :
      k < l => /\ ~NumericBefore(picked[l], picked[k])
               /\ ranked[k][1] # ranked[l][1]

\* the number of places of t at which kw occurs
Occurrences(kw, t) == Cardinality({i \in 1..Len(t) : OccursAt(kw, t, i)})

RECURSIVE KeywordOccurrences(_, _)
\* the occurrences in t of the terms k.. of the legal-keyword set, summed
KeywordOccurrences(t, k) ==
  IF k > Len(KEYWORDS_STRONG) THEN 0
  ELSE Occurrences(KEYWORDS_STRONG[k], t) + KeywordOccurrences(t, k + 1)

\* the lower-cased text score_block searches for the one block scored
ScoredText == LowerText(blocks[1][1] \o Str(<<" ">>) \o blocks[1][2])

\* what the signals other than the keywords add to the score of the block, in
\* tenths: article citation, EVRM, length, the document's ECLI, depth
OtherThanKeywords ==
  (IF ArtCitation(ScoredText) THEN 15 ELSE 0)
  + (IF Contains(Str(<<"e","v","r","m">>), ScoredText) THEN 10 ELSE 0)
  + LengthScore(CharLen(blocks[1][2]))
  + (IF extract_eclis(tekst) # <<>> THEN 3 ELSE 0)
  + Min(9, 3 * CountDots(blocks[1][1]))

\* C20: the keywords add 2.0 to the score of a block for each occurrence of
\* each term of the legal-keyword set in its lower-cased text, so a keyword
\* that occurs n times adds 2.0 * n (scores are in tenths).
C20_KeywordPerOccurrence ==
  pc = "scored" => score - OtherThanKeywords = 20 * KeywordOccurrences(ScoredText, 1)

\* the content as C18 states it is returned: unchanged up to 1600 characters,
\* else its first 1600 characters and one ellipsis
SoftTruncated(content) ==
  IF CharLen(content) <= 1600 THEN content
  ELSE TakeChars(content, 1600) \o Str(<<"ELLIPSIS">>)

FilteredSet == SeqToSet(Filtered(blocks))

\* C29: every block the short-parent filter removes has a block whose number
\* is a dot-extension of its number that passes the filter and is scored;
\* when topk leaves room for every block, a candidate carries such a number.
C29_DroppedParentKeepsDescendant ==
  pc = "ranked" =>
    \A i \in 1..Len(blocks) :
      i \notin FilteredSet =>
        /\ \E j \in FilteredSet : IsExtension(blocks[j][1], blocks[i][1])
        /\ topk >= Len(blocks) =>
             \E k \in 1..Len(ranked) : IsExtension(ranked[k][1], blocks[i][1])

\* a short 3 and a short 3.1 were both removed and only 3.1.1 is a candidate
C29_Witness ==
  /\ pc = "ranked"
  /\ Len(blocks) = 3
  /\ FilteredSet = {3}
  /\ blocks[1][1] = N3 /\ blocks[2][1] = N31 /\ blocks[3][1] = N311
  /\ Len(ranked) = 1 /\ ranked[1][1] = N311

(***************************************************************************)
(* Claims about segmentation and the steps before the collaborator's call  *)
(***************************************************************************)
IsMarker(p) == p.head = "ro"

\* the numbers of the "r.o. X" markers of the document, in order
MarkerNums == [i \in 1..Len(SelectSeq(parts, IsMarker)) |-> SelectSeq(parts, IsMarker)[i].num]

Segmented == pc \in {"top_blocks", "call_llm"}

\* C5 as stated: for a text with N "r.o. X" markers (N >= 1 here)
\* segmentation returns exactly N blocks, the i-th numbered as the i-th
\* marker.
C5_SegmentationOriginal ==
  (Segmented /\ MarkerNums # <<>>) => AllNums(blocks) = MarkerNums

\* text follows marker paragraph i before the next marker: a body, or a
\* bare-number line
HasContent(i) ==
  \E k \in i..Len(parts) :
    /\ \A j \in (i + 1)..k : ~IsMarker(parts[j])
    /\ parts[k].body # <<>> \/ (k > i /\ parts[k].head = "num")

RECURSIVE MarkersWithContent(_)
\* the numbers of the markers from paragraph i on that text follows
MarkersWithContent(i) ==
  IF i > Len(parts) THEN <<>>
  ELSE (IF IsMarker(parts[i]) /\ HasContent(i) THEN <<parts[i].num>> ELSE <<>>)
         \o MarkersWithContent(i + 1)

\* C5 amended: for a text with N >= 1 "r.o. X" markers segmentation returns
\* one block for each marker that is followed by content before the next
\* marker, numbered as that marker and in document order, and no block for a
\* marker with nothing after it: at most N blocks.
C5_SegmentationAmended ==
  (Segmented /\ MarkerNums # <<>>) =>
    /\ AllNums(blocks) = MarkersWithContent(1)
    /\ Len(blocks) <= Len(MarkerNums)

\* a document of which one marker yields a block and another none
C5_Witness ==
  /\ Segmented
  /\ blocks # <<>>
  /\ Len(blocks) < Len(MarkerNums)

\* the document has no "r.o. X" marker and no bare number that the fallback
\* accepts (only the page number 51)
NoHeaderText ==
  \A i \in 1..Len(parts) :
    parts[i].head = "none" \/ (parts[i].head = "num" /\ parts[i].num = N51)

\* C6: for a text without marker and without accepted fallback header,
\* segmentation returns no block, every step before the collaborator's call
\* can be taken, and the call is reached with no candidate and without
\* rank_ro_blocks having been called.
C6_NoMarkerDegradation ==
  NoHeaderText =>
    /\ Segmented => blocks = <<>>
    /\ pc # "call_llm" => ENABLED Preprocess
    /\ pc = "call_llm" =>
         /\ ranked = <<>>
         /\ calls = <<"normalize_text", "extract_eclis",
                      "segment_rechtsoverwegingen">>

\* the collaborator's call reached for a document of plain text and a page
\* number
C6_Witness ==
  /\ pc = "call_llm"
  /\ NoHeaderText
  /\ \E i \in 1..Len(parts) : parts[i].head = "num"
  /\ \E i \in 1..Len(parts) : parts[i].head = "none"

(***************************************************************************)
(* Claims about extract_eclis                                              *)
(***************************************************************************)
\* the identifiers cited in the document, in upper case, in order
CitedIds == [i \in 1..Len(parts) |-> parts[i].id]

\* the positions at which an identifier is cited for the first time
FirstSeen == {i \in 1..Len(parts) : \A j \in 1..(i - 1) : parts[j].id # parts[i].id}

\* C9: extract_eclis returns the identifiers cited in the text in upper
\* case, each once, in the order of their first occurrence, whatever the
\* letter case of each occurrence, and returns the same for the text and for
\* the text passed through normalize_text.
C9_ReferenceExtraction ==
  pc = "blocks" =>
    /\ Len(eclis) = Cardinality(FirstSeen)
    /\ \A i \in FirstSeen : eclis[Cardinality({j \in FirstSeen : j <= i})] = CitedIds[i]
    /\ extract_eclis(tekst) = eclis

\* one identifier cited twice in different letter case, in a text that
\* normalisation changes
C9_Witness ==
  /\ pc = "blocks"
  /\ Len(parts) = 2
  /\ parts[1].id = parts[2].id
  /\ parts[1].sep = parts[2].sep
  /\ parts[1].text # parts[2].text
  /\ Len(eclis) = 1
  /\ tekst_norm # tekst


(***************************************************************************)
(* Claims about the call of the collaborator and the merge of the sources  *)
(***************************************************************************)
\* C11: a response that fails schema validation ends the invocation with a
\* failure: it is the last attempt made, no further call of the collaborator
\* follows it and the invocation does not return.
C11_SchemaFailurePropagates ==
  \A i \in 1..Len(outcomes) :
    outcomes[i] = "schema" => (i = Len(outcomes) /\ pc \in {"failed", "raised"})

IsExternalFailure(k) == k \in DOMAIN ExternalFailures

\* the exception in flight when an attempt ends as k
FailureOf(k) == IF IsExternalFailure(k) THEN ExternalFailures[k] ELSE SchemaError

\* C12: the error that reaches the caller after a failed last attempt is of
\* a kind that a failure of the other sort (external call against schema
\* validation) never produces.
C12_DistinguishableErrorKinds ==
  (pc = "raised" /\ outcomes # <<>>) =>
    \A k \in DOMAIN ExternalFailures \cup {"schema"} :
      IsExternalFailure(k) # IsExternalFailure(outcomes[Len(outcomes)])
        => CallFailed(FailureOf(k)).type # exc.type


\* the sources the collaborator returned, the extracted identifiers and the
\* sources summarize_case_irac returns
GivenBronnen  == resp.v.Bronnen.v
FoundEclis    == EclisInData(eclis)
MergedSources == data.v.Bronnen.v

\* element i of s occurs at no earlier position of s
IsFirst(s, i) == \A j \in 1..(i - 1) : s[j] # s[i]

\* the number of first occurrences in s up to position i
FirstsUpTo(s, i) == Cardinality({j \in 1..i : IsFirst(s, j)})

\* the number of extracted identifiers up to position i that the collaborator
\* did not name
NewUpTo(i) ==
  Cardinality({j \in 1..i : FoundEclis[j] \notin SeqToSet(GivenBronnen)})

\* C15: the returned Bronnen has no duplicates, holds every source of the
\* collaborator and every extracted identifier, and is ordered: the
\* collaborator's sources by first occurrence, then the extracted
\* identifiers not yet present.
C15_SourceMerging ==
  pc = "done" =>
    /\ \A i, j \in 1..Len(MergedSources) : i < j => MergedSources[i] # MergedSources[j]
    /\ SeqToSet(MergedSources) = SeqToSet(GivenBronnen) \cup SeqToSet(FoundEclis)
    /\ \A i \in 1..Len(GivenBronnen) :
         IsFirst(GivenBronnen, i)
           => MergedSources[FirstsUpTo(GivenBronnen, i)] = GivenBronnen[i]
    /\ \A i \in 1..Len(FoundEclis) :
         FoundEclis[i] \notin SeqToSet(GivenBronnen)
           => MergedSources[FirstsUpTo(GivenBronnen, Len(GivenBronnen)) + NewUpTo(i)]
                = FoundEclis[i]

\* the collaborator named one source twice; of the extracted identifiers one
\* is among its sources and one is not
C15_Witness ==
  /\ pc = "done"
  /\ \E i, j \in 1..Len(GivenBronnen) : i < j /\ GivenBronnen[i] = GivenBronnen[j]
  /\ \E i \in 1..Len(FoundEclis) : FoundEclis[i] \in SeqToSet(GivenBronnen)
  /\ \E i \in 1..Len(FoundEclis) : FoundEclis[i] \notin SeqToSet(GivenBronnen)

(***************************************************************************)
(* Claims about headers and blocks of segment_rechtsoverwegingen           *)
(***************************************************************************)
\* position i of num starts a component
StartsComponent(num, i) == i = 1 \/ num[i - 1][1] = "."

\* num is 1 to 4 components separated by dots, each a run of digits that
\* does not start with 0 unless it is 0
IsNumberingPath(num) ==
  /\ num # <<>>
  /\ \A i \in 1..Len(num) : num[i][2] = 1 /\ (IsDigit(num[i][1]) \/ num[i][1] = ".")
  /\ IsDigit(num[1][1]) /\ IsDigit(num[Len(num)][1])
  /\ \A i \in 2..Len(num) : num[i][1] = "." => num[i - 1][1] # "."
  /\ Cardinality({i \in 1..Len(num) : num[i][1] = "."}) <= 3
  /\ \A i \in 1..Len(num) :
       (StartsComponent(num, i) /\ num[i][1] = "0") => (i = Len(num) \/ num[i + 1][1] = ".")

HeadersCollected == pc \in {"seg_blocks", "segmented"}

\* C13: the number of every header and of every block is a numbering path:
\* 1 to 4 dot-separated integers without leading zeros.
C13_NumberingPathForm ==
  /\ HeadersCollected => \A i \in 1..Len(headers) : IsNumberingPath(headers[i][1])
  /\ pc = "segmented" => \A i \in 1..Len(blocks) : IsNumberingPath(blocks[i][1])

\* C14: no two blocks of one segmentation have the same number (a repeated
\* header number extends the first block instead of making a second one).
C14_BlockNumberUnique ==
  pc = "segmented" =>
    \A i, j \in 1..Len(blocks) : i < j => blocks[i][1] # blocks[j][1]

IsExplicit(p) == p.head \in {"ro", "rov"}

\* the number a header pattern takes from the number written in a paragraph:
\* its first four components
WrittenNum(p) == IF p.num = N31234 THEN SubSeq(N31234, 1, 7) ELSE p.num

\* the value of the first component of the bare numbers of the samples
BareFirst(p) ==
  CASE p.num = N0 -> 0 [] p.num = N007 -> 7 [] p.num = N50 -> 50 [] p.num = N51 -> 51

IsAcceptedBare(p) == p.head = "num" /\ BareFirst(p) >= 1 /\ BareFirst(p) <= 50

NumsOf(ps) == [i \in 1..Len(ps) |-> WrittenNum(ps[i])]

HeaderNums == [i \in 1..Len(headers) |-> headers[i][1]]

\* C19: with an explicit r.o./rov. marker in the text the headers are the
\* explicit markers and no bare number; without one they are the bare
\* line-leading numbers whose first component is between 1 and 50; either
\* way in increasing position.
C19_HeaderFallback ==
  HeadersCollected =>
    /\ HeaderNums = IF \E i \in 1..Len(parts) : IsExplicit(parts[i])
                    THEN NumsOf(SelectSeq(parts, IsExplicit))
                    ELSE NumsOf(SelectSeq(parts, IsAcceptedBare))
    /\ \A i, j \in 1..Len(headers) : i < j => headers[i][2] < headers[j][2]

\* a text without explicit marker of which two bare numbers are accepted and
\* one is refused
C19_Witness ==
  /\ pc = "segmented"
  /\ \A i \in 1..Len(parts) : parts[i].head = "num"
  /\ Len(parts) = 3
  /\ Len(headers) = 2


(***************************************************************************)
(* Claims about interleaved runs                                           *)
(***************************************************************************)
\* what a run on this document and this reply holds at its end when it runs
\* alone and _enforce_min_roles walks the missing roles in order o
AloneRun(doc, reply, o) ==
  LET alone_norm == normalize_text(doc)
      alone_blocks == segment_rechtsoverwegingen(alone_norm)
      alone_top == IF alone_blocks # <<>>
                   THEN rank_ro_blocks(alone_blocks, alone_norm, TOPK_RO)
                   ELSE <<>>
      valid == _validate_irac(reply)
  IN [eclis |-> extract_eclis(alone_norm),
      blocks |-> alone_blocks,
      top_blocks |-> alone_top,
      pc |-> IF valid THEN "returned" ELSE "failed",
      data |-> IF valid
               THEN _deny_unknown_ro_nums(_enforce_min_roles(reply, o),
                                          CandidateNums(alone_top))
               ELSE reply]

RolAt(d, i) == Rol(Ros(d)[i])

\* the iterations done so far in which block i was re-labelled
PromotionsOf(i) == {k \in 1..Len(picked) : picked[k] = i}

\* an iteration re-labels only blocks that are Overig when it starts
PromotesOverigOnly ==
  \A i \in 1..Len(Ros(data)) : RolAt(data', i) # RolAt(data, i) => RolAt(data, i) = OVERIG

\* C21: in one run of _enforce_min_roles no block is re-labelled in more than
\* one iteration, a block that came as Rule, Application or Conclusion has
\* that role throughout, and every iteration re-labels only blocks that are
\* Overig at that moment.
C21_SinglePromotion ==
  /\ [](pc \in {"for_want", "enforced"} =>
          \A i \in 1..Len(Ros(resp)) :
            /\ Cardinality(PromotionsOf(i)) <= 1
            /\ RolAt(resp, i) # OVERIG => RolAt(data, i) = RolAt(resp, i))
  /\ [][PromotesOverigOnly]_vars

\* a block was promoted to one missing role and a later iteration, for a
\* role whose keywords the same block matches, left it alone
C21_Witness ==
  /\ pc = "enforced"
  /\ \E k, l \in 1..Len(picked) :
       /\ k < l
       /\ picked[k] # 0
       /\ RoleScore(Ros(resp)[picked[k]], order[l]) > 0
       /\ picked[l] # picked[k]
       /\ RolAt(data, picked[k]) = order[k]


\* the block _pick_best_for_role is to select in iteration k: the earliest of
\* the highest-scoring blocks that are Overig and score > 0 at that moment,
\* 0 if there is none
BestFitAt(k) ==
  LET before == _enforce_min_roles(resp, SubSeq(order, 1, k - 1))
      cand   == ScoringOverig(before, order[k])
  IN  IF cand = {} THEN 0 ELSE FirstBest(before, order[k], cand)

\* the roles of `order` that no block could be promoted to
RoleGaps == {order[k] : k \in {j \in 1..Len(picked) : picked[j] = 0}}

\* the returned structure tells of a gap: it holds a member, at top level or
\* in a block, that the response did not hold
GapNoted ==
  \/ DOMAIN data.v # DOMAIN resp.v
  \/ \E i \in 1..Len(Ros(data)) : DOMAIN Ros(data)[i].v # DOMAIN Ros(resp)[i].v

\* the selection of C22: each iteration selects the best-fitting block and
\* promotes it, or selects none, and then the role stays absent and nothing
\* is raised
BestFitPromotion ==
  pc = "enforced" =>
    /\ \A k \in 1..Len(order) :
         /\ picked[k] = BestFitAt(k)
         /\ picked[k] # 0 => RolAt(data, picked[k]) = order[k]
         /\ picked[k] = 0 => ~HasRole(data, order[k])
    /\ exc = NoExc

\* C22: for each missing role the earliest of the highest-scoring Overig
\* blocks with a score > 0 is promoted; when there is none the role stays
\* absent, nothing is raised, and the result goes back to the caller with the
\* gap noted.
C22_BestFitSoftGap ==
  /\ BestFitPromotion
  /\ (pc = "enforced" /\ RoleGaps # {}) => GapNoted


(***************************************************************************)
(* Claims about the stages and the retry loop of call_llm_irac_with_ranking *)
(***************************************************************************)
\* the index in calls of the latest call of the collaborator, 0 if none
LastCreate ==
  IF \E i \in 1..Len(calls) : calls[i] = "create"
  THEN CHOOSE i \in 1..Len(calls) :
         calls[i] = "create" /\ \A j \in (i + 1)..Len(calls) : calls[j] # "create"
  ELSE 0

\* what was called since the latest call of the collaborator
SinceLastCreate == SubSeq(calls, LastCreate + 1, Len(calls))

\* C23: a result is returned only after schema validation, minimum-role
\* enforcement and the anti-hallucination guard have run in this order, each
\* once, on the response it came from, and that response is schema-valid;
\* the two guardrail passes run only right after a validation that passed,
\* never on a response that failed it.
C23_StageOrdering ==
  /\ pc \in {"returned", "done"} =>
       /\ SinceLastCreate = <<"_validate_irac", "_enforce_min_roles", "_deny_unknown_ro_nums">>
       /\ defect = NoDefect
  /\ pc \in {"min_roles", "deny"} => defect = NoDefect
  /\ \A i \in 1..Len(calls) :
       /\ calls[i] = "_enforce_min_roles" => (i > 1 /\ calls[i - 1] = "_validate_irac")
       /\ calls[i] = "_deny_unknown_ro_nums" => (i > 1 /\ calls[i - 1] = "_enforce_min_roles")
       /\ (calls[i] = "_validate_irac" /\ i < Len(calls)) =>
            calls[i + 1] \in {"create", "_enforce_min_roles"}

\* a result returned at the second attempt, the first response having failed
\* validation
C23_Witness ==
  /\ pc = "returned"
  /\ outcomes = <<"schema", "ok">>
  /\ Len(Ros(data)) > 0


\* the base delay before attempt i + 1, in hundredths: 2 seconds, doubled
\* after every sleep
BaseDelay(i) == 200 * 2 ^ (i - 1)

\* the safety part of C26
RetrySafety ==
  /\ Len(outcomes) <= (IF max_retries >= 1 THEN max_retries ELSE 0)
  /\ Len(slept) = attempt - 1
  /\ \A i \in 1..Len(slept) :
       /\ slept[i] <= 2000
       /\ slept[i] >= Min(2000, BaseDelay(i))
       /\ slept[i] <= BaseDelay(i) + 75
  /\ \A i \in 1..Len(outcomes) :
       outcomes[i] = "ok" => (i = Len(outcomes) /\ pc = "returned")
  /\ pc = "returned" => (outcomes # <<>> /\ outcomes[Len(outcomes)] = "ok")
  /\ pc = "raised" =>
       /\ exc.type = "LLMError"
       /\ max_retries >= 1 => (Len(outcomes) = max_retries /\ Len(slept) = max_retries - 1)
       /\ max_retries <= 0 => (outcomes = <<>> /\ calls = <<>> /\ slept = <<>>)

\* C26: with max_retries = n >= 1 at most n attempts are made; the first
\* attempt whose response parses and validates returns and nothing is done
\* after it; the n-th failed attempt raises LLMError with no sleep after it;
\* every sleep lies between two attempts, lasts at most 20 seconds and starts
\* from a base delay of 2 seconds that doubles; with n <= 0 no attempt is
\* made and LLMError is raised; and the loop always ends, with a result or
\* with an LLMError.
C26_RetryLoop ==
  /\ []RetrySafety
  /\ [][pc # "returned" /\ pc # "raised"]_vars
  /\ <>(pc \in {"returned", "raised"})

\* six attempts failed, the last sleep was cut to 20 seconds, and LLMError
\* was raised
C26_Witness ==
  /\ pc = "raised"
  /\ max_retries = 6
  /\ Len(outcomes) = 6
  /\ Len(slept) = 5
  /\ slept[5] = 2000
  /\ exc.type = "LLMError"


\* C27: the roles _enforce_min_roles leaves behind are the same for every
\* order in which the missing roles can be processed.
C27_OrderIndependence ==
  pc = "enforced" =>
    \A o \in Orders(NeededRoles(resp)) : data = _enforce_min_roles(resp, o)


(***************************************************************************)
(* Claims about what the guardrail leaves alone                            *)
(***************************************************************************)
\* a structure with the rol of every block blanked
RolesBlanked(d) ==
  [d EXCEPT !.v.Rechtsoverwegingen.v =
     [i \in 1..Len(@) |-> [@[i] EXCEPT !.v.rol.v = <<>>]]]

\* C28: after _enforce_min_roles and after _deny_unknown_ro_nums the
\* structure differs from the validated response in the rol of blocks only
\* (same blocks in the same order, same ro_nummer, quote, inhoud, citaten,
\* same Issue, Rule, Application, Conclusion and Bronnen), every rol is one
\* of Rule, Application, Conclusion, Overig, and the structure is still
\* schema-valid.
C28_GuardrailFrame ==
  pc \in {"deny", "returned"} =>
    /\ RolesBlanked(data) = RolesBlanked(resp)
    /\ \A i \in 1..Len(Ros(data)) : Rol(Ros(data)[i]) \in ROL_ENUM
    /\ _validate_irac(resp)
    /\ _validate_irac(data)

\* a returned result in which one block was promoted and another demoted
C28_Witness ==
  /\ pc = "returned"
  /\ \E i, j \in 1..Len(Ros(data)) :
       /\ RolAt(resp, i) = OVERIG /\ RolAt(data, i) # OVERIG
       /\ RolAt(resp, j) # OVERIG /\ RolAt(data, j) = OVERIG


(***************************************************************************)
(* Claims about normalize_text                                             *)
(***************************************************************************)
\* atoms a..b of u are line breaks
LineBreaks(u, a, b) == \A j \in a..b : u[j][1] = "\n"

\* two paragraphs of u with three or more blank lines between them: a
\* character that is no whitespace, four or more line breaks, and again a
\* character that is no whitespace
ParagraphsFarApart(u) ==
  \E i \in 1..Len(u) : \E k \in 4..Len(u) :
    /\ i + k + 1 <= Len(u)
    /\ ~IsSpace(u[i][1])
    /\ LineBreaks(u, i + 1, i + k)
    /\ ~IsSpace(u[i + k + 1][1])

\* C24: a run of three or more blank lines between two paragraphs comes out
\* of normalize_text as exactly one blank line: the output holds two line
\* breaks in a row and nowhere three.
C24_BlankLineCollapsing ==
  (pc \in {"segment", "normalized"} /\ ParagraphsFarApart(tekst)) =>
    /\ Contains(Str(<<"\n", "\n">>), tekst_norm)
    /\ ~Contains(Str(<<"\n", "\n", "\n">>), tekst_norm)

\* C30: normalize_text applied to its own result returns that result, and
\* segment_rechtsoverwegingen yields on the normalised text the blocks it
\* yields on the raw text.
C30_NormalizerIdempotence ==
  pc = "normalized" =>
    /\ norm_t = tekst_norm
    /\ segment_rechtsoverwegingen(tekst_norm) = segment_rechtsoverwegingen(tekst)

\* a raw text that normalize_text changed, inside and at its ends, and that
\* holds a block
C30_Witness ==
  /\ pc = "normalized"
  /\ Len(tekst_norm) + 2 < Len(tekst)
  /\ Strip(tekst) # tekst_norm
  /\ segment_rechtsoverwegingen(tekst_norm) # <<>>

(***************************************************************************)
(* Claims about the content of a block                                     *)
(***************************************************************************)
\* the number num stands at position i of content as a token of its own: what
\* follows is neither a digit nor a dot and a digit
CompleteAt(content, num, i) ==
  /\ OccursAt(num, content, i)
  /\ ~(i + Len(num) <= Len(content) /\ IsDigit(content[i + Len(num)][1]))
  /\ ~(/\ IsChar(content, i + Len(num), ".")
       /\ i + Len(num) + 1 <= Len(content)
       /\ IsDigit(content[i + Len(num) + 1][1]))

RECURSIVE DropRestatements(_, _)
\* content without the complete restatements of num it starts with
DropRestatements(content, num) ==
  IF CompleteAt(content, num, 1)
  THEN LET a == IF IsChar(content, Len(num) + 1, ".") THEN Len(num) + 1 ELSE Len(num)
       IN  DropRestatements(Slice(content, RunEnd(content, a + 1, IsSpace) + 1, Len(content)), num)
  ELSE content

\* the span of headers[i] without surrounding whitespace, leading
\* punctuation and complete restatements of its number
CleanSpan(t, hs, i) ==
  DropRestatements(StripLeadingPunct(Strip(RawContent(t, hs, i))), hs[i][1])

RECURSIVE CleanBlocks(_, _, _)
\* the blocks of the headers from hs[i] on whose clean span is not empty
CleanBlocks(t, hs, i) ==
  IF i > Len(hs) THEN <<>>
  ELSE (IF CleanSpan(t, hs, i) # <<>> THEN << <<hs[i][1], CleanSpan(t, hs, i)>> >> ELSE <<>>)
         \o CleanBlocks(t, hs, i + 1)

\* C25: the text of a block with header number X is the span up to the next
\* header without leading whitespace, leading colon, hyphen or em-dash and
\* complete repeated restatements of X; a span that starts with a token merely
\* beginning with the digits of X is kept intact; no returned block is empty
C25_ContentCleanup ==
  pc = "segmented" =>
    /\ blocks = CleanBlocks(tekst_norm, headers, 1)
    /\ \A i \in 1..Len(blocks) : blocks[i][2] # <<>>

\* no returned block is empty, and a span that starts with punctuation or
\* with complete restatements of X only loses these
CleanupOfCompleteTokens ==
  pc = "segmented" =>
    /\ \A i \in 1..Len(blocks) : blocks[i][2] # <<>>
    /\ \A i \in 1..Len(headers) :
         LET span == Strip(RawContent(tekst_norm, headers, i))
         IN  (\A j \in 1..Len(span) : ~(OccursAt(headers[i][1], span, j) /\ ~CompleteAt(span, headers[i][1], j)))
               => BlockContent(tekst_norm, headers, i) = CleanSpan(tekst_norm, headers, i)

=============================================================================
